---- MODULE Spec2Model ----
(***************************************************************************)
(* A model of the telnet-codenames server: the session map and the room    *)
(* registry of GameServerState, the Codenames room engine of codenames.rs  *)
(* and the single-threaded event loop of lib.rs that drives them.          *)
(*                                                                         *)
(* Text is modelled as a sequence of tokens.  A token is one character     *)
(* ("!", ",", " ") or one indivisible run of characters that holds none of *)
(* those (a word, a numeral, a literal piece of a format string).          *)
(* Option<T> is a sequence of length 0 (None) or 1 (Some).                 *)
(***************************************************************************)
EXTENDS Integers, Sequences, FiniteSets, TLC

VARIABLES
    user_state,     \* GameServerState.user_state : HashMap<SocketAddr, User>
    game_rooms,     \* GameServerState.game_rooms : HashMap<i32, GameRoom>
    open_streams,   \* event_loop's Vec<TcpStream>, each stream by its peer address
    idx,            \* position of retain_mut in open_streams
    pc,             \* where the loop stands: "accept", "prompt" or "logic"
    rd,             \* what read_until_block returned to handle_client
    out,            \* what get_client_prompt returned to handle_client
    panicked,       \* an unwrap() on None aborted the process
    lines_left      \* the number of lines the clients will still send

vars ==
    <<user_state, game_rooms, open_streams, idx, pc, rd, out, panicked,
      lines_left>>

-----------------------------------------------------------------------------
(* Option<T> *)

None == <<>>

Some(x) == <<x>>

IsSome(o) == Len(o) = 1

IsNone(o) == Len(o) = 0

Unwrap(o) == o[1]

\* a value under a name: With(e, LAMBDA x : f(x)) is f(e)
With(v, F(_)) == F(v)

-----------------------------------------------------------------------------
(* str: trim, starts_with, split, parse::<i32>, Display for i32 *)

WhiteSpace == {" ", "\r\n"}

RECURSIVE TrimStart(_)
TrimStart(s) ==
    IF s # <<>> /\ Head(s) \in WhiteSpace THEN TrimStart(Tail(s)) ELSE s

RECURSIVE TrimEnd(_)
TrimEnd(s) ==
    IF s # <<>> /\ s[Len(s)] \in WhiteSpace
    THEN TrimEnd(SubSeq(s, 1, Len(s) - 1))
    ELSE s

Trim(s) == TrimEnd(TrimStart(s))

StartsWith(s, p) == Len(s) >= Len(p) /\ SubSeq(s, 1, Len(p)) = p

\* str::split(','): the pieces between the separators, empty pieces included
RECURSIVE SplitAcc(_, _, _)
SplitAcc(s, sep, cur) ==
    IF s = <<>> THEN <<cur>>
    ELSE IF Head(s) = sep THEN <<cur>> \o SplitAcc(Tail(s), sep, <<>>)
    ELSE SplitAcc(Tail(s), sep, Append(cur, Head(s)))

Split(s, sep) == SplitAcc(s, sep, <<>>)

\* the integers whose numerals occur in the lines of the model
MaxNumeral == 12

Numerals == (0 - MaxNumeral) .. MaxNumeral

\* Display for i32
FmtI32(n) == ToString(n)

\* str::parse::<i32>: Ok only when the whole text is one numeral
ParseI32(s) ==
    IF Len(s) = 1 /\ \E n \in Numerals : FmtI32(n) = s[1]
    THEN Some(CHOOSE n \in Numerals : FmtI32(n) = s[1])
    ELSE None

\* String::len(): every token of a line counts one byte
ByteLen(s) == Len(s)

-----------------------------------------------------------------------------
(* HashMap insert and remove *)

MapPut(m, k, v) == (k :> v) @@ m

MapRemove(m, k) == [x \in DOMAIN m \ {k} |-> m[x]]

\* the elements of a finite set of integers, ascending
RECURSIVE SetToSeq(_)
SetToSeq(S) ==
    IF S = {} THEN <<>>
    ELSE LET m == CHOOSE x \in S : \A y \in S : x <= y
         IN <<m>> \o SetToSeq(S \ {m})

\* the concatenation of a sequence of texts
RECURSIVE Flatten(_)
Flatten(ss) == IF ss = <<>> THEN <<>> ELSE Head(ss) \o Flatten(Tail(ss))

-----------------------------------------------------------------------------
(* The enums of codenames.rs and game.rs *)

CodenamesState == {"WaitingToStart", "RedTurn", "BlueTurn", "GameEnd"}

CodenamesTeam == {"Red", "Blue", "Floating"}

CodenamesRole == {"Spymaster", "Teammate", "Spectator"}

CodenamesCardType == {"RedAgent", "BlueAgent", "Assassin", "Bystander"}

ServerState ==
    {"Joined", "UsernameEntry", "LobbySelection", "InvalidInput", "InRoom",
     "FatalError"}

\* Display for CodenamesCardType
CardTypeDisplay(t) ==
    CASE t = "RedAgent" -> "R"
      [] t = "BlueAgent" -> "B"
      [] t = "Assassin" -> "A"
      [] t = "Bystander" -> " "

\* CodenamesPlayer::default()
DefaultPlayer ==
    [team |-> "Floating", role |-> "Spectator", chat_queue |-> <<>>,
     state_prompted |-> None]

\* the User that get_user_state inserts for an unknown peer address
NewUser(addr) ==
    [state |-> "Joined", prev_state |-> "Joined", user_name |-> <<"default">>,
     socket_addr |-> addr, game_room_key |-> None, player |-> None]

get_user_state(us, addr) ==
    IF addr \in DOMAIN us THEN us ELSE MapPut(us, addr, NewUser(addr))

-----------------------------------------------------------------------------
(* The board.  gen_board draws 25 words and the 25 card types without      *)
(* replacement; a room's board is one outcome of those draws.              *)

BoardSide == 5

NumBlueAgents == 8

NumRedAgents == 9

NumBystanders == 7

\* card_types of gen_board, in the order the chain builds it
CardTypePool ==
    [i \in 1 .. NumBlueAgents |-> "BlueAgent"]
    \o [i \in 1 .. NumRedAgents |-> "RedAgent"]
    \o [i \in 1 .. NumBystanders |-> "Bystander"]
    \o <<"Assassin">>

\* 25 distinct words of the word list
BoardWords ==
    <<"w1", "w2", "w3", "w4", "w5", "w6", "w7", "w8", "w9", "w10",
      "w11", "w12", "w13", "w14", "w15", "w16", "w17", "w18", "w19", "w20",
      "w21", "w22", "w23", "w24", "w25">>

\* the outcome of gen_board in which cell k draws word k and the card type
\* k + shift (cyclically) of the pool
LayoutBoard(shift) ==
    [r \in 1 .. BoardSide |->
        [c \in 1 .. BoardSide |->
            LET k == (r - 1) * BoardSide + c
            IN [word |-> BoardWords[k],
                card_type |-> CardTypePool[((k - 1 + shift) % Len(CardTypePool)) + 1],
                flipped |-> FALSE]]]

\* the lines of the word list: words of gen_board before the first draw.
\* The list has more words than a board has cells, each once.
WordList == BoardWords \o <<"w26", "w27">>

\* the outcomes of thread_rng the model draws from: a draw is a pair of
\* strides, one for the words and one for the card types
MaxPick == 2

Draws == [w : 0 .. MaxPick, t : 0 .. MaxPick]

\* choose: the index picked at the i-th cell among n remaining entries
PickWord(draw, i, n) == ((draw.w * i) % n) + 1

PickType(draw, i, n) == ((draw.t * i + draw.w) % n) + 1

\* Vec::remove leaving the entry in the vector
remove_none(v, i) == v

\* Vec::remove: the vector without its entry at index i
remove(v, i) == SubSeq(v, 1, i - 1) \o SubSeq(v, i + 1, Len(v))

\* the closure of gen_board for the cells i .. n, in the order map visits
\* them: a word and a card type are chosen and removed for each cell
RECURSIVE gen_cells(_, _, _, _, _)
gen_cells(words, card_types, draw, i, n) ==
    IF i > n THEN <<>>
    ELSE <<[word |-> words[PickWord(draw, i, Len(words))],
            card_type |-> card_types[PickType(draw, i, Len(card_types))],
            flipped |-> FALSE]>>
         \o gen_cells(remove(words, PickWord(draw, i, Len(words))),
                      remove(card_types, PickType(draw, i, Len(card_types))),
                      draw, i + 1, n)

\* gen_board: the board for one outcome of the draws
gen_board(draw) ==
    With(gen_cells(WordList, CardTypePool, draw, 1, BoardSide * BoardSide),
         LAMBDA cells :
    [r \in 1 .. BoardSide |->
        [c \in 1 .. BoardSide |-> cells[(r - 1) * BoardSide + c]]])

\* the cells of a board in the row-major order find_card and get_board visit
Cells(board) == Flatten(board)

-----------------------------------------------------------------------------
(* codenames.rs: the room of a session *)

\* the CodenamesRoom that initialize_user_board creates on the first access
NewRoom(addr, board) ==
    [state |-> "WaitingToStart", players |-> {addr}, blue_score |-> 0,
     red_score |-> 0, clue |-> None, guesses |-> 0,
     assassin_found_by |-> None, board |-> board]

\* initialize_user_board taking a new board at every access
initialize_user_board_regen(us, gr, addr, board) ==
    With([us[addr] EXCEPT
             !.player = IF IsSome(@) THEN @ ELSE Some(DefaultPlayer)],
         LAMBDA u :
    IF IsSome(u.game_room_key) /\ Unwrap(u.game_room_key) \in DOMAIN gr
    THEN With(Unwrap(u.game_room_key), LAMBDA k :
         [ok |-> TRUE, key |-> k,
          us |-> [us EXCEPT ![addr] = u],
          gr |-> [gr EXCEPT
                     ![k].impl_room =
                         IF IsNone(@)
                         THEN Some(NewRoom(u.socket_addr, board))
                         ELSE Some([Unwrap(@) EXCEPT
                                       !.players = @ \cup {u.socket_addr},
                                       !.board = board])]])
    ELSE [ok |-> FALSE, key |-> 0,
          us |-> [us EXCEPT ![addr] = [u EXCEPT !.state = "FatalError"]],
          gr |-> gr])

\* initialize_user_board creating the room its key names when the registry
\* has none
initialize_user_board_revive(us, gr, addr, board) ==
    With([us[addr] EXCEPT
             !.player = IF IsSome(@) THEN @ ELSE Some(DefaultPlayer)],
         LAMBDA u :
    IF IsSome(u.game_room_key) /\ Unwrap(u.game_room_key) \in DOMAIN gr
    THEN With(Unwrap(u.game_room_key), LAMBDA k :
         [ok |-> TRUE, key |-> k,
          us |-> [us EXCEPT ![addr] = u],
          gr |-> [gr EXCEPT
                     ![k].impl_room =
                         IF IsNone(@)
                         THEN Some(NewRoom(u.socket_addr, board))
                         ELSE Some([Unwrap(@) EXCEPT
                                       !.players = @ \cup {u.socket_addr}])]])
    ELSE IF IsSome(u.game_room_key)
    THEN [ok |-> TRUE, key |-> Unwrap(u.game_room_key),
          us |-> [us EXCEPT ![addr] = u],
          gr |-> MapPut(gr, Unwrap(u.game_room_key),
                        [name |-> u.user_name \o <<"'s Room">>,
                         impl_room |-> Some(NewRoom(u.socket_addr, board))])]
    ELSE [ok |-> FALSE, key |-> 0,
          us |-> [us EXCEPT ![addr] = [u EXCEPT !.state = "FatalError"]],
          gr |-> gr])

\* initialize_user_board making the session the only player of its room
initialize_user_board_alone(us, gr, addr, board) ==
    With([us[addr] EXCEPT
             !.player = IF IsSome(@) THEN @ ELSE Some(DefaultPlayer)],
         LAMBDA u :
    IF IsSome(u.game_room_key) /\ Unwrap(u.game_room_key) \in DOMAIN gr
    THEN With(Unwrap(u.game_room_key), LAMBDA k :
         [ok |-> TRUE, key |-> k,
          us |-> [us EXCEPT ![addr] = u],
          gr |-> [gr EXCEPT
                     ![k].impl_room =
                         IF IsNone(@)
                         THEN Some(NewRoom(u.socket_addr, board))
                         ELSE Some([Unwrap(@) EXCEPT
                                       !.players = {u.socket_addr}])]])
    ELSE [ok |-> FALSE, key |-> 0,
          us |-> [us EXCEPT ![addr] = [u EXCEPT !.state = "FatalError"]],
          gr |-> gr])

\* initialize_user_board: gives the session its overlay, then creates the game
\* instance of the session's room (with the board gen_board returned) or adds
\* the session to its players; Err and FatalError when the room key is unset
\* or names no room.  key is the room id on Ok.
initialize_user_board(us, gr, addr, board) ==
    With([us[addr] EXCEPT
             !.player = IF IsSome(@) THEN @ ELSE Some(DefaultPlayer)],
         LAMBDA u :
    IF IsSome(u.game_room_key) /\ Unwrap(u.game_room_key) \in DOMAIN gr
    THEN With(Unwrap(u.game_room_key), LAMBDA k :
         [ok |-> TRUE, key |-> k,
          us |-> [us EXCEPT ![addr] = u],
          gr |-> [gr EXCEPT
                     ![k].impl_room =
                         IF IsNone(@)
                         THEN Some(NewRoom(u.socket_addr, board))
                         ELSE Some([Unwrap(@) EXCEPT
                                       !.players = @ \cup {u.socket_addr}])]])
    ELSE [ok |-> FALSE, key |-> 0,
          us |-> [us EXCEPT ![addr] = [u EXCEPT !.state = "FatalError"]],
          gr |-> gr])

-----------------------------------------------------------------------------
(* codenames.rs: rendering *)

RuleLine == "-----\r\n"

\* format!("{:^width}"): the text centred in width places, the odd place of
\* the padding on the right; a longer text is kept whole
Spaces(n) == [i \in 1 .. n |-> " "]

Center(text, width) ==
    IF Len(text) >= width THEN text
    ELSE Spaces((width - Len(text)) \div 2)
         \o text
         \o Spaces((width - Len(text)) - ((width - Len(text)) \div 2))

\* RenderCard with the type of an unflipped card shown to no role
RenderCard_hidden(card, role) ==
    IF ~card.flipped
    THEN <<"|", IF card.flipped THEN "X" ELSE " ">>
         \o Center(<<card.word>>, 14)
    ELSE <<"|", IF card.flipped THEN "X" ELSE " ">>
         \o Center(<<card.word>>, 13)
         \o <<CardTypeDisplay(card.card_type), " ">>

\* RenderCard with the type of the card shown to every role
RenderCard_open(card, role) ==
    <<"|", IF card.flipped THEN "X" ELSE " ">>
    \o Center(<<card.word>>, 13)
    \o <<CardTypeDisplay(card.card_type), " ">>

\* one cell of get_board: a Teammate sees only the word of an unflipped card
RenderCard(card, role) ==
    IF role = "Teammate" /\ ~card.flipped
    THEN <<"|", IF card.flipped THEN "X" ELSE " ">>
         \o Center(<<card.word>>, 14)
    ELSE <<"|", IF card.flipped THEN "X" ELSE " ">>
         \o Center(<<card.word>>, 13)
         \o <<CardTypeDisplay(card.card_type), " ">>

\* CodenamesRoom::get_board
get_board(room, team, role) ==
    <<RuleLine>>
    \o Flatten([r \in 1 .. Len(room.board) |->
          Flatten([c \in 1 .. Len(room.board[r]) |->
              RenderCard(room.board[r][c], role)])
          \o <<"|\r\n", RuleLine>>])

\* one line of get_player_roles; nothing for a player that is not in the
\* session map
PlayerLine(a, us, cur_user_addr) ==
    IF a \in DOMAIN us
    THEN With(IF IsSome(us[a].player) THEN Unwrap(us[a].player) ELSE DefaultPlayer,
              LAMBDA p :
                  <<IF cur_user_addr = us[a].socket_addr THEN "YOU" ELSE "", " ">>
                  \o us[a].user_name
                  \o <<" ", p.role, ",", " ", p.team, "\r\n">>)
    ELSE <<>>

\* get_player_roles: one line per player of the room (the players are
\* visited in ascending address order)
get_player_roles(room, us, cur_user_addr) ==
    With(SetToSeq(room.players), LAMBDA ps :
        <<"User Name Role Team\r\n", RuleLine>>
        \o Flatten([i \in 1 .. Len(ps) |-> PlayerLine(ps[i], us, cur_user_addr)])
        \o <<RuleLine>>)

codenames_turn_prompt(team, player, room) ==
    <<team, " ", "Team's Turn:\r\n">>
    \o (IF <<"Spymaster", team>> = <<player.role, player.team>>
        THEN <<"Type in your clue in the format 'clue,number' where a clue is a single wordand the number is the number of guesses your team has. Keep in mind you can't usethe word you would like them to choose in the guess\r\n">>
        ELSE IF <<"Teammate", team>> = <<player.role, player.team>>
        THEN <<"Use chat to talk to everyone but ", "the spymaster on the ",
               team, " team. ",
               "Guess by submitting your guess word with a '!' in front. End your turn with '!!' after making at least one guess.\r\n">>
        ELSE <<"Continue to talk to everyone, it's not your turn\r\n">>)
    \o <<"Score: ", FmtI32(room.red_score), "-", FmtI32(room.blue_score),
         " (R-B)\r\n">>
    \o get_board(room, player.team, player.role)

LobbyOptions ==
    "Available Options:\r\nteammate/spymaster: Put yourself in one of these roles\r\nred/blue: Put yourself into one of these teams\r\nshow: Show the current state of the room if there are any changes\r\nstart: Start the game if the correct roles are filled\r\nOtherwise, any other input will be a chat message to the room\r\n"

\* the lines codenames_prompt pushes for the state of the room
StateView(room, player, us, addr) ==
    CASE room.state = "WaitingToStart" ->
            <<<<LobbyOptions>> \o get_player_roles(room, us, addr)>>
      [] room.state = "BlueTurn" -> <<codenames_turn_prompt("Blue", player, room)>>
      [] room.state = "RedTurn" -> <<codenames_turn_prompt("Red", player, room)>>
      [] room.state = "GameEnd" ->
            <<<<"The game has ended, thanks for playing!\r\n">>,
              IF IsSome(room.assassin_found_by)
              THEN <<"The ", Unwrap(room.assassin_found_by),
                     " team found the assassin, so they lost!">>
              ELSE <<"The final score was ", FmtI32(room.red_score), "-",
                     FmtI32(room.blue_score), " (R-B)\r\n">>>>

\* the text codenames_prompt returns for the lines it pushed
PromptText(prompt) ==
    IF prompt = <<>> THEN None
    ELSE Some(Flatten([i \in 1 .. Len(prompt) |-> prompt[i] \o <<"\r\n">>]))

\* codenames_prompt pushing the view of the state at every call
prompt_room_always(queued, init, addr) ==
    IF init.ok
    THEN With(Unwrap(init.gr[init.key].impl_room), LAMBDA room :
         With(Unwrap(init.us[addr].player), LAMBDA player :
         With([init.us EXCEPT ![addr].player[1].state_prompted = Some(room.state)],
              LAMBDA us3 :
         [us |-> us3, gr |-> init.gr, shown |-> TRUE,
          text |-> PromptText(queued \o StateView(room, player, us3, addr))])))
    ELSE [us |-> init.us, gr |-> init.gr, shown |-> FALSE,
          text |-> PromptText(queued)]

\* codenames_prompt after the queue was drained: visits the room through
\* initialize_user_board and, when the room's state is not the one last
\* prompted, pushes the view of the state
prompt_room(queued, init, addr) ==
    IF init.ok
    THEN With(Unwrap(init.gr[init.key].impl_room), LAMBDA room :
         With(Unwrap(init.us[addr].player), LAMBDA player :
         With(\/ IsNone(player.state_prompted)
              \/ Unwrap(player.state_prompted) # room.state, LAMBDA show :
         With([init.us EXCEPT ![addr].player[1].state_prompted = Some(room.state)],
              LAMBDA us3 :
         [us |-> us3, gr |-> init.gr, shown |-> show,
          text |-> PromptText(queued \o (IF show
                                         THEN StateView(room, player, us3, addr)
                                         ELSE <<>>))]))))
    ELSE [us |-> init.us, gr |-> init.gr, shown |-> FALSE,
          text |-> PromptText(queued)]

\* codenames_prompt draining the chat queue from its back
codenames_prompt_lifo(us0, gr0, addr, board) ==
    With(get_user_state(us0, addr), LAMBDA us1 :
        prompt_room(
            IF IsSome(us1[addr].player)
            THEN [i \in 1 .. Len(Unwrap(us1[addr].player).chat_queue) |->
                     Unwrap(us1[addr].player).chat_queue[
                         Len(Unwrap(us1[addr].player).chat_queue) + 1 - i]]
            ELSE <<>>,
            initialize_user_board(
                IF IsSome(us1[addr].player)
                THEN [us1 EXCEPT ![addr].player[1].chat_queue = <<>>] ELSE us1,
                gr0, addr, board),
            addr))

\* codenames_prompt: drains the session's chat queue, then the room.  text is
\* None when nothing was pushed; shown tells that the view was pushed.
codenames_prompt(us0, gr0, addr, board) ==
    With(get_user_state(us0, addr), LAMBDA us1 :
        prompt_room(
            IF IsSome(us1[addr].player)
            THEN Unwrap(us1[addr].player).chat_queue ELSE <<>>,
            initialize_user_board(
                IF IsSome(us1[addr].player)
                THEN [us1 EXCEPT ![addr].player[1].chat_queue = <<>>] ELSE us1,
                gr0, addr, board),
            addr))

-----------------------------------------------------------------------------
(* codenames.rs: broadcast, readiness, forced re-render, card lookup *)

\* push_back of one line on the chat queue of every session in `to` that has
\* an overlay
PushChat(us, to, msg) ==
    [a \in DOMAIN us |->
        IF a \in to /\ IsSome(us[a].player)
        THEN [us[a] EXCEPT !.player[1].chat_queue = Append(@, msg)]
        ELSE us[a]]

\* broadcast_chat to every session but the sender, of whatever room
broadcast_chat_all_rooms(user_addr, user_name, chat_line, room, us) ==
    PushChat(us, {a \in DOMAIN us : us[a].socket_addr # user_addr},
             user_name \o <<":", " ">> \o Trim(chat_line))

\* broadcast_chat: to every session of the map that is a player of the room
\* and is not the sender
broadcast_chat(user_addr, user_name, chat_line, room, us) ==
    PushChat(us,
             {a \in DOMAIN us :
                  us[a].socket_addr \in room.players /\ us[a].socket_addr # user_addr},
             user_name \o <<":", " ">> \o Trim(chat_line))

\* broadcast_chat_everyone: to every session of the map that is a player of
\* the room
broadcast_chat_everyone(chat_line, room, us) ==
    PushChat(us, {a \in DOMAIN us : us[a].socket_addr \in room.players},
             Trim(chat_line))

\* verify_room unwraps the session of every player of the room
verify_room_panics(room, us) == \E a \in room.players : a \notin DOMAIN us

\* verify_room satisfied by any one of the four pairs (|| for &&)
verify_room_any(room, us) ==
    \E team \in {"Red", "Blue"} : \E role \in {"Spymaster", "Teammate"} :
        \E a \in room.players :
            /\ IsSome(us[a].player)
            /\ Unwrap(us[a].player).team = team
            /\ Unwrap(us[a].player).role = role

\* verify_room: every (team, role) of {Red, Blue} x {Spymaster, Teammate} is
\* counted at least once over the players of the room
verify_room(room, us) ==
    LET counts(team, role) ==
            Cardinality({a \in room.players :
                /\ IsSome(us[a].player)
                /\ Unwrap(us[a].player).team = team
                /\ Unwrap(us[a].player).role = role})
    IN \A team \in {"Red", "Blue"} :
           \A role \in {"Spymaster", "Teammate"} : counts(team, role) >= 1

\* refresh_prompt unwraps the overlay of every player found in the map
refresh_prompt_panics(room, us) ==
    \E a \in room.players : a \in DOMAIN us /\ IsNone(us[a].player)

\* refresh_prompt clearing nothing
refresh_prompt_none(room, us) == us

\* refresh_prompt: clears state_prompted of every player of the room
refresh_prompt(room, us) ==
    [a \in DOMAIN us |->
        IF a \in room.players /\ IsSome(us[a].player)
        THEN [us[a] EXCEPT !.player[1].state_prompted = None]
        ELSE us[a]]

\* find_card: the first cell, row by row, whose word is card_name, as
\* Some(<<row, column>>)
find_card(card_name, room) ==
    With({k \in 1 .. Len(Cells(room.board)) :
              <<Cells(room.board)[k].word>> = card_name},
         LAMBDA hits :
    IF hits = {} THEN None
    ELSE With(CHOOSE h \in hits : \A j \in hits : h <= j, LAMBDA k :
              Some(<<((k - 1) \div BoardSide) + 1, ((k - 1) % BoardSide) + 1>>)))

-----------------------------------------------------------------------------
(* codenames.rs: turn_logic *)

RedWinScore == 9

BlueWinScore == 8

\* what a branch of turn_logic leaves: the session map, the room, whether
\* switch_turn was set, whether the branch returned from turn_logic, and
\* whether an unwrap panicked
Branch(us, room, switch_turn, returned, panic) ==
    [us |-> us, room |-> room, switch_turn |-> switch_turn,
     returned |-> returned, panic |-> panic]

\* card_logic with a Bystander that does not end the turn by itself
card_logic_bystander(team, card_type, us, room) ==
    CASE card_type = "Assassin" ->
            Branch(us,
                   [room EXCEPT !.assassin_found_by = Some(team),
                                !.state = "GameEnd"],
                   FALSE, TRUE, FALSE)
      [] card_type = "RedAgent" ->
            Branch(refresh_prompt(room, us),
                   [room EXCEPT !.red_score = @ + 1],
                   \/ team = "Blue"
                   \/ IsSome(room.clue)
                      /\ room.guesses > Unwrap(room.clue).cards_to_match,
                   FALSE, refresh_prompt_panics(room, us))
      [] card_type = "BlueAgent" ->
            Branch(refresh_prompt(room, us),
                   [room EXCEPT !.blue_score = @ + 1],
                   \/ team = "Red"
                   \/ IsSome(room.clue)
                      /\ room.guesses > Unwrap(room.clue).cards_to_match,
                   FALSE, refresh_prompt_panics(room, us))
      [] card_type = "Bystander" ->
            Branch(refresh_prompt(room, us), room,
                   IsSome(room.clue)
                   /\ room.guesses > Unwrap(room.clue).cards_to_match,
                   FALSE, refresh_prompt_panics(room, us))

\* card_logic with the Assassin charged to the team that did not guess it
card_logic_assassin(team, card_type, us, room) ==
    CASE card_type = "Assassin" ->
            Branch(us,
                   [room EXCEPT
                       !.assassin_found_by =
                           Some(IF team = "Red" THEN "Blue" ELSE "Red"),
                       !.state = "GameEnd"],
                   FALSE, TRUE, FALSE)
      [] card_type = "RedAgent" ->
            Branch(refresh_prompt(room, us),
                   [room EXCEPT !.red_score = @ + 1],
                   \/ team = "Blue"
                   \/ IsSome(room.clue)
                      /\ room.guesses > Unwrap(room.clue).cards_to_match,
                   FALSE, refresh_prompt_panics(room, us))
      [] card_type = "BlueAgent" ->
            Branch(refresh_prompt(room, us),
                   [room EXCEPT !.blue_score = @ + 1],
                   \/ team = "Red"
                   \/ IsSome(room.clue)
                      /\ room.guesses > Unwrap(room.clue).cards_to_match,
                   FALSE, refresh_prompt_panics(room, us))
      [] card_type = "Bystander" ->
            Branch(refresh_prompt(room, us), room, TRUE, FALSE,
                   refresh_prompt_panics(room, us))

\* card_logic without the check of the clue's count
card_logic_no_limit(team, card_type, us, room) ==
    CASE card_type = "Assassin" ->
            Branch(us,
                   [room EXCEPT !.assassin_found_by = Some(team),
                                !.state = "GameEnd"],
                   FALSE, TRUE, FALSE)
      [] card_type = "RedAgent" ->
            Branch(refresh_prompt(room, us),
                   [room EXCEPT !.red_score = @ + 1],
                   team = "Blue", FALSE, refresh_prompt_panics(room, us))
      [] card_type = "BlueAgent" ->
            Branch(refresh_prompt(room, us),
                   [room EXCEPT !.blue_score = @ + 1],
                   team = "Red", FALSE, refresh_prompt_panics(room, us))
      [] card_type = "Bystander" ->
            Branch(refresh_prompt(room, us), room, TRUE, FALSE,
                   refresh_prompt_panics(room, us))

\* the match on the type of the card a guess found, at row r, column c, after
\* the card was flipped, then the check of the clue and refresh_prompt; the
\* Assassin arm returns before both
card_logic(team, card_type, us, room) ==
    CASE card_type = "Assassin" ->
            Branch(us,
                   [room EXCEPT !.assassin_found_by = Some(team),
                                !.state = "GameEnd"],
                   FALSE, TRUE, FALSE)
      [] card_type = "RedAgent" ->
            Branch(refresh_prompt(room, us),
                   [room EXCEPT !.red_score = @ + 1],
                   \/ team = "Blue"
                   \/ IsSome(room.clue)
                      /\ room.guesses > Unwrap(room.clue).cards_to_match,
                   FALSE, refresh_prompt_panics(room, us))
      [] card_type = "BlueAgent" ->
            Branch(refresh_prompt(room, us),
                   [room EXCEPT !.blue_score = @ + 1],
                   \/ team = "Red"
                   \/ IsSome(room.clue)
                      /\ room.guesses > Unwrap(room.clue).cards_to_match,
                   FALSE, refresh_prompt_panics(room, us))
      [] card_type = "Bystander" ->
            Branch(refresh_prompt(room, us), room, TRUE, FALSE,
                   refresh_prompt_panics(room, us))

\* a guess after it was counted and announced: the card is flipped and
\* resolved, or the word is announced as no card name
guess_found(team, guess, found, us, room) ==
    IF IsSome(found)
    THEN With(Unwrap(found)[1], LAMBDA r :
         With(Unwrap(found)[2], LAMBDA c :
              card_logic(team, room.board[r][c].card_type, us,
                         [room EXCEPT !.board[r][c].flipped = TRUE])))
    ELSE Branch(broadcast_chat_everyone(
                    guess \o <<" ", "is not a valid card name to guess", "\r\n">>,
                    room, us),
                room, FALSE, FALSE, FALSE)

\* the guess branch of turn_logic ('!' + word from the active Teammate): the
\* guess is counted, announced to everyone and looked up
guess_logic(team, l, us, room, user) ==
    With([room EXCEPT !.guesses = @ + 1], LAMBDA room1 :
    With(Trim(Tail(l)), LAMBDA guess :
        guess_found(
            team, guess, find_card(guess, room1),
            broadcast_chat_everyone(
                user.user_name \o <<" ", "Guessed", " ">> \o guess \o <<"\r\n">>,
                room1, us),
            room1)))

\* clue_parsed taking the first two of any number of parts
clue_parsed_lax(parts, number, us, room) ==
    IF Len(parts) >= 2 /\ IsSome(ParseI32(Trim(parts[2])))
    THEN With([room EXCEPT
                  !.clue = Some([cards_to_match |-> Unwrap(ParseI32(Trim(parts[2]))),
                                 clue |-> parts[1]])],
              LAMBDA room1 :
         Branch(broadcast_chat_everyone(
                    <<"Spymaster Clue:", " ">> \o parts[1]
                    \o <<",", " ", FmtI32(Unwrap(ParseI32(Trim(parts[2])))), "\r\n">>,
                    room1, us),
                room1, FALSE, FALSE, FALSE))
    ELSE Branch(us, room, FALSE, FALSE, FALSE)

\* the Spymaster branch of turn_logic after the split at ',' and the parse of
\* the number
clue_parsed(parts, number, us, room) ==
    IF Len(parts) = 2 /\ IsSome(number)
    THEN With([room EXCEPT
                  !.clue = Some([cards_to_match |-> Unwrap(number),
                                 clue |-> parts[1]])],
              LAMBDA room1 :
         Branch(broadcast_chat_everyone(
                    <<"Spymaster Clue:", " ">> \o parts[1]
                    \o <<",", " ", FmtI32(Unwrap(number)), "\r\n">>,
                    room1, us),
                room1, FALSE, FALSE, FALSE))
    ELSE Branch(us, room, FALSE, FALSE, FALSE)

\* the Spymaster branch of turn_logic: 'word,number' sets the clue
clue_logic(l, us, room) ==
    With(Split(l, ","), LAMBDA parts :
        clue_parsed(parts,
                    IF Len(parts) = 2 THEN ParseI32(Trim(parts[2])) ELSE None,
                    us, room))

\* switch_turn_logic without the check of the end conditions
switch_turn_logic_no_end(team, room) ==
    [room EXCEPT !.state = IF team = "Blue" THEN "RedTurn" ELSE "BlueTurn",
                 !.guesses = 0]

\* the end of turn_logic when switch_turn is set: the other team's turn, no
\* guess made in it, and GameEnd at a winning score
switch_turn_logic(team, room) ==
    [room EXCEPT
        !.state = IF room.red_score = RedWinScore \/ room.blue_score = BlueWinScore
                  THEN "GameEnd"
                  ELSE IF team = "Blue" THEN "RedTurn" ELSE "BlueTurn",
        !.guesses = 0]

\* turn_branch with the Teammate's branch open to every member of the team
\* that is not its Spymaster
turn_branch_any_role(team, l, us, room, user_addr, user_name, player) ==
    IF team = player.team /\ player.role # "Spymaster"
    THEN IF StartsWith(l, <<"!", "!">>)
         THEN Branch(us, room, room.guesses > 0, FALSE, FALSE)
         ELSE IF StartsWith(l, <<"!">>)
         THEN guess_logic(team, l, us, room, us[user_addr])
         ELSE Branch(us, room, FALSE, FALSE, FALSE)
    ELSE IF team = player.team /\ player.role = "Spymaster"
    THEN clue_logic(l, us, room)
    ELSE Branch(broadcast_chat(user_addr, user_name, l, room, us), room,
                FALSE, FALSE, FALSE)

\* turn_branch with "!!" ending the turn whether or not a guess was made
turn_branch_end_always(team, l, us, room, user_addr, user_name, player) ==
    IF team = player.team /\ player.role = "Teammate"
    THEN IF StartsWith(l, <<"!", "!">>)
         THEN Branch(us, room, TRUE, FALSE, FALSE)
         ELSE IF StartsWith(l, <<"!">>)
         THEN guess_logic(team, l, us, room, us[user_addr])
         ELSE Branch(us, room, FALSE, FALSE, FALSE)
    ELSE IF team = player.team /\ player.role = "Spymaster"
    THEN clue_logic(l, us, room)
    ELSE Branch(broadcast_chat(user_addr, user_name, l, room, us), room,
                FALSE, FALSE, FALSE)

\* the dispatch of turn_logic on the team and role of the sender
turn_branch(team, l, us, room, user_addr, user_name, player) ==
    IF team = player.team /\ player.role = "Teammate"
    THEN IF StartsWith(l, <<"!", "!">>)
         THEN Branch(us, room, room.guesses > 0, FALSE, FALSE)
         ELSE IF StartsWith(l, <<"!">>)
         THEN guess_logic(team, l, us, room, us[user_addr])
         ELSE Branch(us, room, FALSE, FALSE, FALSE)
    ELSE IF team = player.team /\ player.role = "Spymaster"
    THEN clue_logic(l, us, room)
    ELSE Branch(broadcast_chat(user_addr, user_name, l, room, us), room,
                FALSE, FALSE, FALSE)

\* turn_logic: one line (or none) of a session while it is `team`'s turn
turn_logic(team, line, us, room, user_addr, user_name) ==
    IF IsNone(line)
    THEN [us |-> us, room |-> room, panic |-> FALSE]
    ELSE With(turn_branch(team, Unwrap(line), us, room, user_addr, user_name,
                          Unwrap(us[user_addr].player)),
              LAMBDA res :
         [us |-> res.us,
          room |-> IF res.switch_turn /\ ~res.returned
                   THEN switch_turn_logic(team, res.room)
                   ELSE res.room,
          panic |-> res.panic])

-----------------------------------------------------------------------------
(* codenames.rs: codenames_logic and codenames_disconnect *)

\* SetOverlay leaving state_prompted as it is
SetOverlay_prompted(us, addr, team, role) ==
    [us EXCEPT ![addr].player[1].team = team,
               ![addr].player[1].role = role]

\* a command of the lobby that sets a field of the sender's overlay
SetOverlay(us, addr, team, role) ==
    [us EXCEPT ![addr].player[1].team = team,
               ![addr].player[1].role = role,
               ![addr].player[1].state_prompted = None]

\* start_logic with the first turn given to Blue
start_logic_blue_first(us, room, user_name) ==
    IF verify_room_panics(room, us)
    THEN [us |-> us, room |-> room, panic |-> TRUE]
    ELSE IF verify_room(room, us)
    THEN [us |-> us, room |-> [room EXCEPT !.state = "BlueTurn"],
          panic |-> FALSE]
    ELSE [us |-> us, room |-> room, panic |-> FALSE]

\* the "start" arm of codenames_logic: the game starts with Red's turn when
\* verify_room holds, and everyone is told either way
start_logic(us, room, user_name) ==
    IF verify_room_panics(room, us)
    THEN [us |-> us, room |-> room, panic |-> TRUE]
    ELSE IF verify_room(room, us)
    THEN [us |-> broadcast_chat_everyone(
                     user_name \o <<" ", "Started the Game!", "\r\n">>,
                     room, us),
          room |-> [room EXCEPT !.state = "RedTurn"],
          panic |-> FALSE]
    ELSE [us |-> broadcast_chat_everyone(
                     <<"Cannot start the game yet, need at least a spymaster and a teammate on each team",
                       "\r\n">>,
                     room, us),
          room |-> room, panic |-> FALSE]

\* the WaitingToStart arm of codenames_logic for the trimmed line cmd
lobby_logic(cmd, l, us, room, addr, user_name, player) ==
    CASE cmd = <<"start">> -> start_logic(us, room, user_name)
      [] cmd = <<"teammate">> ->
            [us |-> SetOverlay(us, addr, player.team, "Teammate"),
             room |-> room, panic |-> FALSE]
      [] cmd = <<"spymaster">> ->
            [us |-> SetOverlay(us, addr, player.team, "Spymaster"),
             room |-> room, panic |-> FALSE]
      [] cmd = <<"red">> ->
            [us |-> SetOverlay(us, addr, "Red", player.role),
             room |-> room, panic |-> FALSE]
      [] cmd = <<"blue">> ->
            [us |-> SetOverlay(us, addr, "Blue", player.role),
             room |-> room, panic |-> FALSE]
      [] cmd = <<"show">> ->
            [us |-> SetOverlay(us, addr, player.team, player.role),
             room |-> room, panic |-> FALSE]
      [] OTHER ->
            [us |-> broadcast_chat(addr, user_name, l, room, us),
             room |-> room, panic |-> FALSE]

\* the match of codenames_logic on the state of the room
room_logic(room, line, us, addr, user_name) ==
    CASE room.state = "WaitingToStart" ->
            IF IsSome(line)
            THEN lobby_logic(Trim(Unwrap(line)), Unwrap(line), us, room, addr,
                             user_name, Unwrap(us[addr].player))
            ELSE [us |-> us, room |-> room, panic |-> FALSE]
      [] room.state = "BlueTurn" ->
            turn_logic("Blue", line, us, room, addr, user_name)
      [] room.state = "RedTurn" ->
            turn_logic("Red", line, us, room, addr, user_name)

\* codenames_logic removing a room at GameEnd only when a line was read
logic_room_lines_only(init, addr, line) ==
    IF ~init.ok
    THEN [us |-> init.us, gr |-> init.gr, panic |-> FALSE]
    ELSE IF Unwrap(init.gr[init.key].impl_room).state = "GameEnd"
    THEN [us |-> init.us, panic |-> FALSE,
          gr |-> IF IsSome(line) THEN MapRemove(init.gr, init.key) ELSE init.gr]
    ELSE With(room_logic(Unwrap(init.gr[init.key].impl_room), line, init.us,
                         addr, init.us[addr].user_name),
              LAMBDA r :
         [us |-> r.us, panic |-> r.panic,
          gr |-> [init.gr EXCEPT ![init.key].impl_room = Some(r.room)]])

\* codenames_logic after initialize_user_board: a room at GameEnd is removed
\* from the registry, any other room handles the line
logic_room(init, addr, line) ==
    IF ~init.ok
    THEN [us |-> init.us, gr |-> init.gr, panic |-> FALSE]
    ELSE IF Unwrap(init.gr[init.key].impl_room).state = "GameEnd"
    THEN [us |-> init.us, gr |-> MapRemove(init.gr, init.key), panic |-> FALSE]
    ELSE With(room_logic(Unwrap(init.gr[init.key].impl_room), line, init.us,
                         addr, init.us[addr].user_name),
              LAMBDA r :
         [us |-> r.us, panic |-> r.panic,
          gr |-> [init.gr EXCEPT ![init.key].impl_room = Some(r.room)]])

\* codenames_logic: one line (or none) of a session that is InRoom
codenames_logic(us0, gr0, addr, line, board) ==
    logic_room(initialize_user_board(get_user_state(us0, addr), gr0, addr, board),
               addr, line)

\* the rooms of the registry whose game instance has addr as a player
RoomsOf(addr, gr) ==
    {k \in DOMAIN gr :
         IsSome(gr[k].impl_room) /\ addr \in Unwrap(gr[k].impl_room).players}

\* codenames_disconnect unwraps the session of the leaving address
codenames_disconnect_panics(addr, gr, us) ==
    addr \notin DOMAIN us /\ RoomsOf(addr, gr) # {}

\* codenames_disconnect: every room that has addr as a player announces the
\* leave to its players (addr still among them) and then drops addr
RECURSIVE LeaveRooms(_, _, _, _)
LeaveRooms(ks, addr, gr, us) ==
    IF ks = <<>> THEN [us |-> us, gr |-> gr]
    ELSE LeaveRooms(
             Tail(ks), addr,
             [gr EXCEPT ![Head(ks)].impl_room[1].players = @ \ {addr}],
             broadcast_chat_everyone(
                 us[addr].user_name \o <<" ", "has left the game!">>,
                 Unwrap(gr[Head(ks)].impl_room), us))

\* codenames_disconnect announcing the leave and keeping addr a player
codenames_disconnect_stay(addr, gr, us) ==
    [us |-> LeaveRooms(SetToSeq(RoomsOf(addr, gr)), addr, gr, us).us,
     gr |-> gr]

codenames_disconnect(addr, gr, us) ==
    LeaveRooms(SetToSeq(RoomsOf(addr, gr)), addr, gr, us)

-----------------------------------------------------------------------------
(* game.rs: the lobby, client_logic, get_client_prompt, client_disconnect *)

UserNameMax == 25

\* find_empty_slot returning the smallest positive id that is not in the
\* registry
find_empty_slot_gap(gr) ==
    CHOOSE k \in 1 .. (Cardinality(DOMAIN gr) + 1) :
        /\ k \notin DOMAIN gr
        /\ \A j \in 1 .. (k - 1) : j \in DOMAIN gr

\* find_empty_slot: one more than the largest room id of the registry (the
\* ids are positive)
find_empty_slot(gr) ==
    IF DOMAIN gr = {} THEN 1
    ELSE (CHOOSE k \in DOMAIN gr : \A j \in DOMAIN gr : j <= k) + 1

\* lobby_selection_logic after the parse: room_idx is the id typed, or the
\* id of the lobby that was created for 0
lobby_enter(user, gr, room_idx) ==
    IF room_idx \notin DOMAIN gr
    THEN [user |-> [user EXCEPT !.state = "InvalidInput"], gr |-> gr]
    ELSE [user |-> [user EXCEPT !.game_room_key = Some(room_idx),
                                !.state = "InRoom"],
          gr |-> gr]

\* lobby_selection_logic: 0 creates a lobby, the id of a room enters it
lobby_selection_logic(user, gr, line) ==
    IF IsNone(line) THEN [user |-> user, gr |-> gr]
    ELSE With(ParseI32(Trim(Unwrap(line))), LAMBDA parsed :
         IF IsNone(parsed)
         THEN [user |-> [user EXCEPT !.state = "InvalidInput"], gr |-> gr]
         ELSE IF Unwrap(parsed) = 0
         THEN With(find_empty_slot(gr), LAMBDA room_idx :
                  lobby_enter(user,
                              MapPut(gr, room_idx,
                                     [name |-> user.user_name \o <<"'s Room">>,
                                      impl_room |-> None]),
                              room_idx))
         ELSE lobby_enter(user, gr, Unwrap(parsed)))

\* the end of client_logic: prev_state keeps the state the call started in
\* when the call changed the state
track_state(r, addr, starting_state) ==
    [us |-> [r.us EXCEPT
                ![addr].prev_state =
                    IF r.us[addr].state # starting_state
                    THEN starting_state ELSE @],
     gr |-> r.gr, panic |-> FALSE, err |-> FALSE]

\* the match of client_logic on the state of the session `user`
state_logic(us, gr, addr, user, line, board) ==
    CASE user.state = "Joined" ->
            [us |-> [us EXCEPT ![addr].state = "UsernameEntry"], gr |-> gr,
             panic |-> FALSE]
      [] user.state = "UsernameEntry" ->
            IF IsNone(line) THEN [us |-> us, gr |-> gr, panic |-> FALSE]
            ELSE IF ByteLen(Unwrap(line)) <= UserNameMax
            THEN [us |-> [us EXCEPT ![addr].user_name = Trim(Unwrap(line)),
                                    ![addr].state = "LobbySelection"],
                  gr |-> gr, panic |-> FALSE]
            ELSE [us |-> [us EXCEPT ![addr].state = "InvalidInput"], gr |-> gr,
                  panic |-> FALSE]
      [] user.state = "LobbySelection" ->
            With(lobby_selection_logic(user, gr, line), LAMBDA r :
                [us |-> [us EXCEPT ![addr] = r.user], gr |-> r.gr,
                 panic |-> FALSE])
      [] user.state = "InvalidInput" ->
            [us |-> [us EXCEPT ![addr].state = user.prev_state], gr |-> gr,
             panic |-> FALSE]
      [] user.state = "InRoom" -> codenames_logic(us, gr, addr, line, board)

\* GameServerState::client_logic.  err: the call returned Err(GameError).
client_logic(us0, gr0, addr, line, board) ==
    With(get_user_state(us0, addr), LAMBDA us1 :
    IF us1[addr].state = "FatalError"
    THEN [us |-> us1, gr |-> gr0, panic |-> FALSE, err |-> TRUE]
    ELSE With(state_logic(us1, gr0, addr, us1[addr], line, board), LAMBDA r :
         IF r.panic
         THEN [us |-> r.us, gr |-> r.gr, panic |-> TRUE, err |-> FALSE]
         ELSE track_state(r, addr, us1[addr].state)))

\* GameServerState::get_lobby_listing: the rooms by ascending id (the name is
\* one token here; its right alignment in 15 columns adds only blanks)
get_lobby_listing(gr) ==
    With(SetToSeq(DOMAIN gr), LAMBDA ks :
        <<"0: New Lobby\r\n">>
        \o Flatten([i \in 1 .. Len(ks) |->
              <<FmtI32(ks[i]), ":", " ">> \o gr[ks[i]].name \o <<"\r\n">>]))

\* the prompt of a session that is not InRoom
state_prompt(state, gr) ==
    CASE state = "Joined" -> <<"Connected to Telnet Codenames\r\n">>
      [] state = "UsernameEntry" ->
            <<"Enter in your username, maximum of 25 characters\r\n">>
      [] state = "LobbySelection" ->
            <<"Which lobby do you want to join? Or create a new lobby\r\n">>
            \o get_lobby_listing(gr)
      [] state = "InvalidInput" -> <<"Invalid input, please try again\r\n">>
      [] state = "FatalError" ->
            <<"A fatal error has occurred, disconnecting...\r\n">>

\* GameServerState::get_client_prompt
get_client_prompt(us0, gr0, addr, board) ==
    With(get_user_state(us0, addr), LAMBDA us1 :
        IF us1[addr].state = "InRoom"
        THEN codenames_prompt(us1, gr0, addr, board)
        ELSE [us |-> us1, gr |-> gr0, shown |-> FALSE,
              text |-> Some(state_prompt(us1[addr].state, gr0))])

\* client_disconnect without codenames_disconnect
client_disconnect_session_only(us, gr, addr) ==
    [us |-> MapRemove(us, addr), gr |-> gr, panic |-> FALSE]

\* GameServerState::client_disconnect
client_disconnect(us, gr, addr) ==
    IF codenames_disconnect_panics(addr, gr, us)
    THEN [us |-> us, gr |-> gr, panic |-> TRUE]
    ELSE With(codenames_disconnect(addr, gr, us), LAMBDA r :
             [us |-> MapRemove(r.us, addr), gr |-> r.gr, panic |-> FALSE])

-----------------------------------------------------------------------------
(* lib.rs: event_loop and handle_client.  One pass of event_loop accepts   *)
(* the pending connections and then runs handle_client on every open       *)
(* stream in turn; handle_client prompts, reads, and applies what it read, *)
(* until the read would block.                                             *)

\* the results of read_until_block
ReadOk(l) == [type |-> "Ok", line |-> l]

WouldBlock == [type |-> "WouldBlock", line |-> <<>>]

StringParsing == [type |-> "StringParsing", line |-> <<>>]

Disconnected == [type |-> "Disconnected", line |-> <<>>]

Unrecoverable == [type |-> "Unrecoverable", line |-> <<>>]

\* no read_until_block result: handle_client is not between its read and
\* its match
NoRead == [type |-> "None", line |-> <<>>]

\* the stream handle_client is running on
Cur == open_streams[idx]

\* the body of handle_client's loop ends: its locals are gone
EndOfBody == rd' = NoRead /\ out' = None

\* retain_mut moves on to the stream at position i of streams
MoveTo(i, streams) ==
    /\ idx' = IF i <= Len(streams) THEN i ELSE 1
    /\ pc' = IF i <= Len(streams) THEN "prompt" ELSE "accept"

\* event_loop: listener.incoming() yields the connections of `peers` that are
\* pending, then retain_mut starts at the first open stream
Accept(peers) ==
    /\ pc = "accept" /\ ~panicked
    /\ \E new \in SUBSET (peers \ {open_streams[i] : i \in DOMAIN open_streams}) :
           /\ open_streams' = open_streams \o SetToSeq(new)
           /\ MoveTo(1, open_streams')
    /\ UNCHANGED <<user_state, game_rooms, rd, out, panicked, lines_left>>

\* handle_client: get_client_prompt for the stream, then read_until_block,
\* which returns one of `reads` or, while the clients still send, a line of
\* `lines`; a room that is first visited here gets a board of `boards`
HandlePrompt(lines, reads, boards) ==
    /\ pc = "prompt" /\ ~panicked
    /\ \E board \in boards :
           \E r \in {get_client_prompt(user_state, game_rooms, Cur, board)} :
               /\ user_state' = r.us
               /\ game_rooms' = r.gr
               /\ out' = r.text
    /\ \/ rd' \in reads /\ UNCHANGED lines_left
       \/ /\ lines_left > 0
          /\ lines_left' = lines_left - 1
          /\ \E l \in lines : rd' = ReadOk(l)
    /\ pc' = "logic"
    /\ UNCHANGED <<open_streams, idx, panicked>>

\* handle_client, Ok(line): client_logic with the line, and the loop repeats
HandleLine(boards) ==
    /\ pc = "logic" /\ ~panicked /\ rd.type = "Ok"
    /\ \E board \in boards :
           \E r \in {client_logic(user_state, game_rooms, Cur, Some(rd.line), board)} :
               /\ user_state' = r.us
               /\ game_rooms' = r.gr
               /\ panicked' = r.panic
    /\ pc' = "prompt"
    /\ EndOfBody
    /\ UNCHANGED <<open_streams, idx, lines_left>>

\* handle_client, StringParsing: continue
HandleParseError ==
    /\ pc = "logic" /\ ~panicked /\ rd.type = "StringParsing"
    /\ pc' = "prompt"
    /\ EndOfBody
    /\ UNCHANGED <<user_state, game_rooms, open_streams, idx, panicked,
                   lines_left>>

\* handle_client, WouldBlock: client_logic with no line, and the stream is
\* retained
HandleIdle(boards) ==
    /\ pc = "logic" /\ ~panicked /\ rd.type = "WouldBlock"
    /\ \E board \in boards :
           \E r \in {client_logic(user_state, game_rooms, Cur, None, board)} :
               /\ user_state' = r.us
               /\ game_rooms' = r.gr
               /\ panicked' = r.panic
    /\ MoveTo(idx + 1, open_streams)
    /\ EndOfBody
    /\ UNCHANGED <<open_streams, lines_left>>

\* handle_client, Disconnected or any other error: client_disconnect, and
\* the stream is dropped
HandleDisconnect ==
    /\ pc = "logic" /\ ~panicked /\ rd.type \in {"Disconnected", "Unrecoverable"}
    /\ \E r \in {client_disconnect(user_state, game_rooms, Cur)} :
           /\ user_state' = r.us
           /\ game_rooms' = r.gr
           /\ panicked' = r.panic
    /\ open_streams' = SubSeq(open_streams, 1, idx - 1)
                       \o SubSeq(open_streams, idx + 1, Len(open_streams))
    /\ MoveTo(idx, open_streams')
    /\ EndOfBody
    /\ UNCHANGED lines_left

-----------------------------------------------------------------------------
(* A game in progress: four sessions hold the four (team, role) pairs a    *)
(* game needs and sit in room 1, between two passes of event_loop.         *)

\* the lines the clients will send in total
MaxLines == 2

\* the layouts of the board the model draws from
Boards == {LayoutBoard(0)}

\* the sessions of the game: address |-> team and role
Lineup ==
    <<[team |-> "Red", role |-> "Spymaster"],
      [team |-> "Red", role |-> "Teammate"],
      [team |-> "Blue", role |-> "Spymaster"],
      [team |-> "Blue", role |-> "Teammate"]>>

UserName(a) == <<"u" \o ToString(a)>>

\* the lines the clients send, each with its line terminator: start, a change
\* of team, the id of room 1, the end of a turn, guesses and a clue.  In
\* LayoutBoard(0) w17 is a RedAgent, w8 a BlueAgent, w18 a Bystander and w25
\* the Assassin, none of them guessed in a checkpoint; zz is on no board.
GameLines ==
    {<<"start", "\r\n">>, <<"blue", "\r\n">>, <<"1", "\r\n">>,
     <<"!", "!", "\r\n">>, <<"!", "w17", "\r\n">>, <<"!", "w8", "\r\n">>,
     <<"!", "w18", "\r\n">>, <<"!", "w25", "\r\n">>, <<"!", "zz", "\r\n">>,
     <<"c", ",", "1", "\r\n">>}

\* the number of cells of the card type of cell k before cell k
Rank(board, k) ==
    Cardinality({j \in 1 .. k - 1 :
        Cells(board)[j].card_type = Cells(board)[k].card_type})

\* the board after the first nred RedAgents and the first nblue BlueAgents
\* were guessed
FlippedBoard(board, nred, nblue) ==
    [r \in 1 .. BoardSide |->
        [c \in 1 .. BoardSide |->
            LET k == (r - 1) * BoardSide + c
                card == board[r][c]
            IN [card EXCEPT !.flipped =
                   \/ card.card_type = "RedAgent" /\ Rank(board, k) < nred
                   \/ card.card_type = "BlueAgent" /\ Rank(board, k) < nblue]]]

\* the room of the game in the lobby
LobbyRoom(board) == [NewRoom(1, board) EXCEPT !.players = DOMAIN Lineup]

\* the room of the game in a turn, with nred RedAgents and nblue BlueAgents
\* found, each once
TurnRoom(board, state, nred, nblue, clue, guesses) ==
    [LobbyRoom(board) EXCEPT
        !.state = state, !.red_score = nred, !.blue_score = nblue,
        !.clue = clue, !.guesses = guesses,
        !.board = FlippedBoard(board, nred, nblue)]

OneCardClue == Some([cards_to_match |-> 1, clue |-> <<"c">>])

\* the rooms a game is checked from:
\*   the lobby;
\*   Red's first turn, as `start` leaves it;
\*   Red's first turn after the clue c,1 and one guess of a RedAgent;
\*   Blue's first turn after Red then guessed a BlueAgent (the clue stays);
\*   a turn of either team with each team one agent short of its winning
\*   score (Red found its agents and one of Blue's in one turn, Blue its
\*   agents in the next and ended its turn with !!, and, for Blue's turn, Red
\*   guessed a word that is on no card and ended its turn too).
Checkpoints ==
    UNION {{LobbyRoom(b),
            TurnRoom(b, "RedTurn", 0, 0, None, 0),
            TurnRoom(b, "RedTurn", 1, 0, OneCardClue, 1),
            TurnRoom(b, "BlueTurn", 1, 1, OneCardClue, 0),
            TurnRoom(b, "RedTurn", RedWinScore - 1, BlueWinScore - 1, None, 0),
            TurnRoom(b, "BlueTurn", RedWinScore - 1, BlueWinScore - 1, None, 0)} :
           b \in Boards}

\* a session of the game, in room 1 with its overlay
Member(a, room) ==
    [state |-> "InRoom", prev_state |-> "LobbySelection",
     user_name |-> UserName(a), socket_addr |-> a, game_room_key |-> Some(1),
     player |-> Some([team |-> Lineup[a].team, role |-> Lineup[a].role,
                      chat_queue |-> <<>>,
                      state_prompted |-> Some(room.state)])]

\* a session that has given its name and not yet chosen a lobby
Newcomer(a) ==
    [NewUser(a) EXCEPT !.state = "LobbySelection",
                       !.prev_state = "UsernameEntry",
                       !.user_name = UserName(a)]

RoomName == UserName(1) \o <<"'s Room">>

\* a game at a checkpoint, between two passes of event_loop: every session
\* was shown the state of the room and has no line queued
InitCheckpoint ==
    /\ \E room \in Checkpoints :
           /\ game_rooms = (1 :> [name |-> RoomName, impl_room |-> Some(room)])
           /\ user_state = [a \in DOMAIN Lineup |-> Member(a, room)]
    /\ pc = "accept"

\* the lobby at its creation: session 1 typed 0 in the lobby selection and
\* handle_client is about to prompt it; room 1 has no game instance yet and
\* the other sessions have not chosen a lobby
InitCreated ==
    /\ game_rooms = (1 :> [name |-> RoomName, impl_room |-> None])
    /\ user_state =
           [a \in DOMAIN Lineup |->
               IF a = 1
               THEN [Newcomer(a) EXCEPT !.state = "InRoom",
                                        !.prev_state = "LobbySelection",
                                        !.game_room_key = Some(1)]
               ELSE Newcomer(a)]
    /\ pc = "prompt"

InitGame ==
    /\ InitCheckpoint \/ InitCreated
    /\ open_streams = SetToSeq(DOMAIN Lineup)
    /\ idx = 1
    /\ rd = NoRead
    /\ out = None
    /\ panicked = FALSE
    /\ lines_left = MaxLines

NextGame ==
    \/ Accept({})
    \/ HandlePrompt(GameLines, {WouldBlock}, Boards)
    \/ HandleLine(Boards)
    \/ HandleIdle(Boards)

Spec == InitGame /\ [][NextGame]_vars

-----------------------------------------------------------------------------
(* The properties of the game.  A step that applies a line is a step from  *)
(* a state in which handle_client has read the line (pc = "logic" and rd   *)
(* holds it); the unprimed variables are the state before client_logic and *)
(* the primed ones the state after it.                                     *)

\* room k of registry gr has a game instance
Live(gr, k) == k \in DOMAIN gr /\ IsSome(gr[k].impl_room)

\* the game instance of room k of registry gr
RoomOf(gr, k) == Unwrap(gr[k].impl_room)

\* the ids of the rooms of the registry before or after a step
RoomIds == DOMAIN game_rooms \cup DOMAIN game_rooms'

\* the session handle_client is running on, its room id, and its overlay
CurUser == user_state[Cur]

CurKey == Unwrap(CurUser.game_room_key)

CurPlayer == Unwrap(CurUser.player)

\* the room of the current session before and after the step
CurRoom == RoomOf(game_rooms, CurKey)

CurRoomAfter == RoomOf(game_rooms', CurKey)

\* handle_client has read a line of a member of a room with a game instance
LineRead ==
    /\ pc = "logic" /\ rd.type = "Ok"
    /\ Cur \in DOMAIN user_state
    /\ CurUser.state = "InRoom"
    /\ IsSome(CurUser.game_room_key) /\ Live(game_rooms, CurKey)
    /\ IsSome(CurUser.player) /\ Cur \in CurRoom.players

\* the room is in a turn; the team whose turn it is, and the other team
InTurn(room) == room.state \in {"RedTurn", "BlueTurn"}

ActiveTeam(room) == IF room.state = "RedTurn" THEN "Red" ELSE "Blue"

OtherTurn(room) == IF room.state = "RedTurn" THEN "BlueTurn" ELSE "RedTurn"

\* the line read is a line of the Teammate of the active team
TeammateLine ==
    /\ LineRead /\ InTurn(CurRoom)
    /\ CurPlayer.team = ActiveTeam(CurRoom) /\ CurPlayer.role = "Teammate"

\* the line read is the end-of-turn command, or a guess, of the active
\* Teammate; the word guessed
EndTurnLine == TeammateLine /\ StartsWith(rd.line, <<"!", "!">>)

GuessLine ==
    TeammateLine /\ StartsWith(rd.line, <<"!">>) /\ ~StartsWith(rd.line, <<"!", "!">>)

GuessWord == Trim(Tail(rd.line))

\* the cells of the board, numbered row by row, and the cells the guess names
CellIds == 1 .. BoardSide * BoardSide

CellOf(room, k) == room.board[((k - 1) \div BoardSide) + 1][((k - 1) % BoardSide) + 1]

Named(k) == <<CellOf(CurRoom, k).word>> = GuessWord

\* the guess names cell k and no cell before it
Matches(k) == GuessLine /\ Named(k) /\ \A j \in 1 .. k - 1 : ~Named(j)

\* the step ends the turn: the other team's turn, or the end of the game
TurnEnds ==
    /\ Live(game_rooms', CurKey)
    /\ CurRoomAfter.state \in {OtherTurn(CurRoom), "GameEnd"}

-----------------------------------------------------------------------------
\* C1: a room's state starts at WaitingToStart and changes only along
\* WaitingToStart -> RedTurn, RedTurn <-> BlueTurn and RedTurn or BlueTurn ->
\* GameEnd; no step leaves GameEnd for another state (the room is removed).
StateEdges ==
    {<<"WaitingToStart", "RedTurn">>, <<"RedTurn", "BlueTurn">>,
     <<"BlueTurn", "RedTurn">>, <<"RedTurn", "GameEnd">>,
     <<"BlueTurn", "GameEnd">>}

C1_StateMachine ==
    [][\A k \in RoomIds :
          Live(game_rooms', k) =>
              IF Live(game_rooms, k)
              THEN \/ RoomOf(game_rooms', k).state = RoomOf(game_rooms, k).state
                   \/ <<RoomOf(game_rooms, k).state, RoomOf(game_rooms', k).state>>
                          \in StateEdges
              ELSE RoomOf(game_rooms', k).state = "WaitingToStart"]_vars

\* a turn ended the game at a winning score
C1_Witness ==
    /\ Live(game_rooms, 1)
    /\ RoomOf(game_rooms, 1).state = "GameEnd"
    /\ IsNone(RoomOf(game_rooms, 1).assassin_found_by)

-----------------------------------------------------------------------------
\* C2: the text produced for a session whose role is Teammate does not depend
\* on the kind of any card that is not flipped: it is the text produced from
\* the state in which every such card has one and the same kind, whichever
\* kind that is; and a card becomes flipped only by a guess of the active
\* Teammate that names it.

\* board with the kind of every card that is not flipped set to t
HideBoard(board, t) ==
    [r \in 1 .. BoardSide |->
        [c \in 1 .. BoardSide |->
            IF board[r][c].flipped THEN board[r][c]
            ELSE [board[r][c] EXCEPT !.card_type = t]]]

\* registry gr with every board so changed
Disguise(gr, t) ==
    [k \in DOMAIN gr |->
        IF IsSome(gr[k].impl_room)
        THEN [gr[k] EXCEPT
                 !.impl_room =
                     Some([Unwrap(@) EXCEPT !.board = HideBoard(@, t)])]
        ELSE gr[k]]

\* handle_client is about to prompt a session whose role is Teammate
TeammatePrompt ==
    /\ pc = "prompt"
    /\ Cur \in DOMAIN user_state
    /\ IsSome(CurUser.player)
    /\ CurPlayer.role = "Teammate"

C2_FogOfWar ==
    [][/\ TeammatePrompt =>
              \A t \in CodenamesCardType : \E board \in Boards :
                  out' = get_client_prompt(user_state, Disguise(game_rooms, t),
                                           Cur, board).text
       /\ \A k \in RoomIds :
              Live(game_rooms, k) /\ Live(game_rooms', k) =>
                  \A j \in CellIds :
                      /\ ~CellOf(RoomOf(game_rooms, k), j).flipped
                      /\ CellOf(RoomOf(game_rooms', k), j).flipped
                      => Matches(j) /\ k = CurKey]_vars

\* a Teammate was sent the board of a turn in which some cards are flipped
\* and some are not
C2_Witness ==
    /\ pc = "logic" /\ LineRead
    /\ CurPlayer.role = "Teammate"
    /\ InTurn(CurRoom)
    /\ IsSome(out)
    /\ \E i \in DOMAIN Unwrap(out) : Unwrap(out)[i] = "|\r\n"
    /\ \E j \in CellIds : CellOf(CurRoom, j).flipped
    /\ \E j \in CellIds : ~CellOf(CurRoom, j).flipped

-----------------------------------------------------------------------------
\* C3: a line that is "start" after trimming, sent by a member of a room that
\* is WaitingToStart, moves the room to RedTurn exactly when each of (Red,
\* Spymaster), (Red, Teammate), (Blue, Spymaster), (Blue, Teammate) is held
\* by at least one member of the room at that moment; otherwise the room
\* stays WaitingToStart.

\* some member of the room holds (team, role)
Held(room, team, role) ==
    \E a \in room.players :
        /\ a \in DOMAIN user_state
        /\ IsSome(user_state[a].player)
        /\ Unwrap(user_state[a].player).team = team
        /\ Unwrap(user_state[a].player).role = role

Ready(room) ==
    /\ Held(room, "Red", "Spymaster") /\ Held(room, "Red", "Teammate")
    /\ Held(room, "Blue", "Spymaster") /\ Held(room, "Blue", "Teammate")

StartLine ==
    LineRead /\ CurRoom.state = "WaitingToStart" /\ Trim(rd.line) = <<"start">>

C3_Start ==
    [][StartLine =>
          /\ Live(game_rooms', CurKey)
          /\ CurRoomAfter.state = IF Ready(CurRoom) THEN "RedTurn"
                                  ELSE "WaitingToStart"]_vars

\* start is read in a room where only one of the four pairs is not held
C3_Witness ==
    /\ StartLine
    /\ ~Ready(CurRoom)
    /\ Cardinality({tr \in {"Red", "Blue"} \X {"Spymaster", "Teammate"} :
                        Held(CurRoom, tr[1], tr[2])}) = 3

-----------------------------------------------------------------------------
\* C4: a guess of the active team's Teammate that names a card flips the
\* card; a RedAgent adds 1 to red_score and ends the turn when Blue is the
\* active team; a BlueAgent adds 1 to blue_score and ends the turn when Red
\* is the active team; a Bystander changes no score and ends the turn.
ScoresAfter(dred, dblue) ==
    /\ CurRoomAfter.red_score = CurRoom.red_score + dred
    /\ CurRoomAfter.blue_score = CurRoom.blue_score + dblue

\* what C4 says of a guess that names a card of type t at cell j
GuessScored(j, t) ==
    /\ Live(game_rooms', CurKey)
    /\ CellOf(CurRoomAfter, j).flipped
    /\ t = "RedAgent" =>
           ScoresAfter(1, 0) /\ (ActiveTeam(CurRoom) = "Blue" => TurnEnds)
    /\ t = "BlueAgent" =>
           ScoresAfter(0, 1) /\ (ActiveTeam(CurRoom) = "Red" => TurnEnds)
    /\ t = "Bystander" => ScoresAfter(0, 0) /\ TurnEnds

-----------------------------------------------------------------------------
\* C5: a guess that names the Assassin sets assassin_found_by to the active
\* team and the state to GameEnd; assassin_found_by is unset in a new game
\* instance and no other step changes it.
AssassinGuess ==
    \E j \in CellIds : Matches(j) /\ CellOf(CurRoom, j).card_type = "Assassin"

C5_Assassin ==
    [][/\ AssassinGuess =>
              /\ Live(game_rooms', CurKey)
              /\ CurRoomAfter.assassin_found_by = Some(ActiveTeam(CurRoom))
              /\ CurRoomAfter.state = "GameEnd"
       /\ \A k \in RoomIds :
              Live(game_rooms', k) =>
                  IF Live(game_rooms, k)
                  THEN RoomOf(game_rooms', k).assassin_found_by
                           # RoomOf(game_rooms, k).assassin_found_by
                       => AssassinGuess /\ k = CurKey
                  ELSE IsNone(RoomOf(game_rooms', k).assassin_found_by)]_vars

\* Blue's Teammate found the Assassin
C5_Witness ==
    /\ Live(game_rooms, 1)
    /\ RoomOf(game_rooms, 1).state = "GameEnd"
    /\ RoomOf(game_rooms, 1).assassin_found_by = Some("Blue")

-----------------------------------------------------------------------------
\* C6: whenever a turn ends other than by the Assassin, guess_count is 0
\* afterwards and the state is GameEnd if red_score is 9 or blue_score is 8,
\* and otherwise the turn of the other team.
C6_TurnSwitch ==
    [][\A k \in RoomIds :
          /\ Live(game_rooms, k) /\ Live(game_rooms', k)
          /\ InTurn(RoomOf(game_rooms, k))
          /\ RoomOf(game_rooms', k).state # RoomOf(game_rooms, k).state
          /\ IsNone(RoomOf(game_rooms', k).assassin_found_by)
          => /\ RoomOf(game_rooms', k).guesses = 0
             /\ RoomOf(game_rooms', k).state =
                    IF \/ RoomOf(game_rooms', k).red_score = RedWinScore
                       \/ RoomOf(game_rooms', k).blue_score = BlueWinScore
                    THEN "GameEnd"
                    ELSE OtherTurn(RoomOf(game_rooms, k))]_vars

\* the turn that gave Blue its last agent ended the game
C6_Witness ==
    /\ Live(game_rooms, 1)
    /\ RoomOf(game_rooms, 1).state = "GameEnd"
    /\ RoomOf(game_rooms, 1).blue_score = BlueWinScore
    /\ RoomOf(game_rooms, 1).red_score < RedWinScore
    /\ RoomOf(game_rooms, 1).guesses = 0

-----------------------------------------------------------------------------
\* C7: when a clue is set and a guess that names a card (not the Assassin)
\* brings guess_count above the clue's target count, the turn ends, also
\* when the card is an agent of the active team.
C7_GuessLimit ==
    [][\A j \in CellIds :
          /\ Matches(j)
          /\ CellOf(CurRoom, j).card_type # "Assassin"
          /\ IsSome(CurRoom.clue)
          /\ CurRoom.guesses + 1 > Unwrap(CurRoom.clue).cards_to_match
          => TurnEnds]_vars

\* Red's Teammate guessed a second RedAgent under a clue for one card, and
\* it is Blue's turn
C7_Witness ==
    /\ Live(game_rooms, 1)
    /\ RoomOf(game_rooms, 1).state = "BlueTurn"
    /\ RoomOf(game_rooms, 1).red_score = 2
    /\ RoomOf(game_rooms, 1).blue_score = 0
    /\ RoomOf(game_rooms, 1).clue = OneCardClue

-----------------------------------------------------------------------------
\* C8: in every reachable state of a room with a clue set, guess_count is at
\* most the clue's target count plus 1.
C8_GuessBound ==
    \A k \in DOMAIN game_rooms :
        Live(game_rooms, k) /\ IsSome(RoomOf(game_rooms, k).clue) =>
            RoomOf(game_rooms, k).guesses
                <= Unwrap(RoomOf(game_rooms, k).clue).cards_to_match + 1

-----------------------------------------------------------------------------
\* C9: a line of the active Teammate that starts with "!!" ends the turn
\* when guess_count > 0; otherwise it changes neither the registry nor any
\* session.
C9_EndTurn ==
    [][EndTurnLine =>
          IF CurRoom.guesses > 0
          THEN TurnEnds
          ELSE UNCHANGED <<game_rooms, user_state>>]_vars

\* Red's Teammate ended the turn with !! after its one guess, of a RedAgent:
\* it is Blue's turn, Red has the one agent and no other card was guessed
C9_Witness ==
    /\ Live(game_rooms, 1)
    /\ RoomOf(game_rooms, 1).state = "BlueTurn"
    /\ RoomOf(game_rooms, 1).red_score = 1
    /\ RoomOf(game_rooms, 1).blue_score = 0
    /\ RoomOf(game_rooms, 1).guesses = 0
    /\ Cardinality({j \in CellIds : CellOf(RoomOf(game_rooms, 1), j).flipped}) = 1

-----------------------------------------------------------------------------
\* C10: a guess of the active Teammate that names no card changes nothing of
\* any room, guess_count included; it only queues announcements for the
\* sessions of the room.
C10_UnknownCard ==
    [][GuessLine /\ (\A j \in CellIds : ~Named(j)) =>
          UNCHANGED game_rooms]_vars

-----------------------------------------------------------------------------
(* The Spymaster's lines: the game of Spec with the lines a Spymaster may  *)
(* type for a clue, well formed and not.                                   *)

\* word,count with and without blanks around the count, a negative count, no
\* word, a count that is no number, two commas, and no comma
ClueLines ==
    {<<"c", ",", "1", "\r\n">>, <<"d", ",", " ", "2", " ", "\r\n">>,
     <<"c", ",", "-1", "\r\n">>, <<",", "3", "\r\n">>,
     <<"c", ",", "x", "\r\n">>, <<"c", ",", "1", ",", "2", "\r\n">>,
     <<"c", " ", "1", "\r\n">>}

NextClue ==
    \/ Accept({})
    \/ HandlePrompt(ClueLines, {WouldBlock}, Boards)
    \/ HandleLine(Boards)
    \/ HandleIdle(Boards)

SpecClue == InitGame /\ [][NextClue]_vars

\* the pending queue of session a in session map us (empty without overlay)
QueueOf(us, a) ==
    IF a \in DOMAIN us /\ IsSome(us[a].player)
    THEN Unwrap(us[a].player).chat_queue ELSE <<>>

\* the step appends exactly one line to the queue of every session of `to`,
\* the line satisfying Is, and changes no other queue
Announced(to, Is(_)) ==
    /\ DOMAIN user_state' = DOMAIN user_state
    /\ \A a \in DOMAIN user_state :
           IF a \in to
           THEN /\ Len(QueueOf(user_state', a)) = Len(QueueOf(user_state, a)) + 1
                /\ SubSeq(QueueOf(user_state', a), 1, Len(QueueOf(user_state, a)))
                       = QueueOf(user_state, a)
                /\ Is(QueueOf(user_state', a)[Len(QueueOf(user_state', a))])
           ELSE QueueOf(user_state', a) = QueueOf(user_state, a)

\* the step changes nothing of a session but its pending queue
OverlaysKept ==
    \A a \in DOMAIN user_state :
        /\ a \in DOMAIN user_state'
        /\ IF IsSome(user_state[a].player)
           THEN user_state'[a] =
                    [user_state[a] EXCEPT
                        !.player[1].chat_queue = QueueOf(user_state', a)]
           ELSE user_state'[a] = user_state[a]

\* the line read is a line of the Spymaster of the active team
SpymasterLine ==
    /\ LineRead /\ InTurn(CurRoom)
    /\ CurPlayer.team = ActiveTeam(CurRoom) /\ CurPlayer.role = "Spymaster"

\* the positions of the commas of the line read
Commas == {i \in DOMAIN rd.line : rd.line[i] = ","}

\* the line read is word,count: one comma, and after it, trimmed, one numeral
ClueForm ==
    /\ Cardinality(Commas) = 1
    /\ \A i \in Commas :
           /\ Len(Trim(SubSeq(rd.line, i + 1, Len(rd.line)))) = 1
           /\ \E n \in Numerals :
                  Trim(SubSeq(rd.line, i + 1, Len(rd.line))) = <<ToString(n)>>

\* the word and the count of a line of that form
ClueWord == SubSeq(rd.line, 1, (CHOOSE i \in Commas : TRUE) - 1)

ClueCount ==
    CHOOSE n \in Numerals :
        Trim(SubSeq(rd.line, (CHOOSE i \in Commas : TRUE) + 1, Len(rd.line)))
            = <<ToString(n)>>

\* a line that announces the clue of the line read
IsClueLine(msg) ==
    /\ ClueWord \o <<",", " ", ToString(ClueCount)>>
           = SubSeq(msg, Len(msg) - Len(ClueWord) - 2, Len(msg))
    /\ Len(msg) > Len(ClueWord) + 3

\* C11: a line word,count of the active team's Spymaster (one comma, the
\* count an integer after trimming) replaces the clue of the room by that
\* word and count, changes nothing else of the room, and is announced by one
\* line to every member; any other line of the active Spymaster changes no
\* room, no overlay and no pending queue.
C11_Clue ==
    [][SpymasterLine =>
          IF ClueForm
          THEN /\ game_rooms' =
                      [game_rooms EXCEPT
                          ![CurKey].impl_room =
                              Some([CurRoom EXCEPT
                                       !.clue = Some([cards_to_match |-> ClueCount,
                                                      clue |-> ClueWord])])]
               /\ Announced(CurRoom.players, IsClueLine)
               /\ OverlaysKept
          ELSE UNCHANGED <<game_rooms, user_state>>]_vars

\* the Spymaster's clue d, 2 replaced the clue c,1 of the turn
C11_Witness ==
    /\ Live(game_rooms, 1)
    /\ RoomOf(game_rooms, 1).clue = Some([cards_to_match |-> 2, clue |-> <<"d">>])
    /\ RoomOf(game_rooms, 1).guesses = 1
    /\ \A a \in RoomOf(game_rooms, 1).players : QueueOf(user_state, a) # <<>>

-----------------------------------------------------------------------------
(* A server with two rooms: three sessions in room 1, one in room 3 (room  *)
(* 2 was torn down), and one that has not chosen a lobby.  Clients send    *)
(* lines and hang up.                                                      *)

\* handle_client: get_client_prompt for the stream, then read_until_block
\* finds that the peer closed the connection (one of the inputs the clients
\* still produce)
HandleHangup(boards) ==
    /\ pc = "prompt" /\ ~panicked
    /\ lines_left > 0
    /\ lines_left' = lines_left - 1
    /\ \E board \in boards :
           \E r \in {get_client_prompt(user_state, game_rooms, Cur, board)} :
               /\ user_state' = r.us
               /\ game_rooms' = r.gr
               /\ out' = r.text
    /\ rd' = Disconnected
    /\ pc' = "logic"
    /\ UNCHANGED <<open_streams, idx, panicked>>

\* the sessions of room 1: address |-> team and role.  The game of room 1
\* was started with a Red Spymaster and a Blue Spymaster that have since
\* hung up.
ServerCast ==
    <<[team |-> "Blue", role |-> "Teammate"],
      [team |-> "Red", role |-> "Teammate"],
      [team |-> "Blue", role |-> "Spectator"]>>

\* the session of room 3 and the session that has not chosen a lobby
Loner == 4

Visitor == 5

OtherRoom == 3

\* the lines the clients send: a new lobby, the id of room 1, a guess of the
\* Assassin, the end of a turn, a clue and start
ServerLines ==
    {<<"0", "\r\n">>, <<"1", "\r\n">>, <<"!", "w25", "\r\n">>,
     <<"!", "!", "\r\n">>, <<"c", ",", "1", "\r\n">>, <<"start", "\r\n">>}

\* room 1 in the lobby, and in Blue's turn after Red guessed a BlueAgent
ServerRooms ==
    UNION {{[NewRoom(1, b) EXCEPT !.players = DOMAIN ServerCast],
            [NewRoom(1, b) EXCEPT
                !.players = DOMAIN ServerCast, !.state = "BlueTurn",
                !.blue_score = 1, !.board = FlippedBoard(b, 0, 1)]} :
           b \in Boards}

\* a session in room k with its overlay, prompted for the state of the room
InRoomUser(a, k, team, role, state) ==
    [state |-> "InRoom", prev_state |-> "LobbySelection",
     user_name |-> UserName(a), socket_addr |-> a, game_room_key |-> Some(k),
     player |-> Some([team |-> team, role |-> role, chat_queue |-> <<>>,
                      state_prompted |-> Some(state)])]

InitServer ==
    /\ \E room \in ServerRooms : \E b \in Boards :
           /\ game_rooms =
                  (1 :> [name |-> RoomName, impl_room |-> Some(room)])
                  @@ (OtherRoom :>
                         [name |-> UserName(Loner) \o <<"'s Room">>,
                          impl_room |-> Some(NewRoom(Loner, b))])
           /\ user_state =
                  [a \in DOMAIN ServerCast \cup {Loner, Visitor} |->
                      IF a \in DOMAIN ServerCast
                      THEN InRoomUser(a, 1, ServerCast[a].team,
                                      ServerCast[a].role, room.state)
                      ELSE IF a = Loner
                      THEN InRoomUser(a, OtherRoom, "Floating", "Spectator",
                                      "WaitingToStart")
                      ELSE Newcomer(a)]
    /\ open_streams = SetToSeq(DOMAIN ServerCast \cup {Loner, Visitor})
    /\ idx = 1
    /\ pc = "accept"
    /\ rd = NoRead
    /\ out = None
    /\ panicked = FALSE
    /\ lines_left = MaxLines

NextServer ==
    \/ Accept({})
    \/ HandlePrompt(ServerLines, {WouldBlock}, Boards)
    \/ HandleHangup(Boards)
    \/ HandleLine(Boards)
    \/ HandleIdle(Boards)
    \/ HandleDisconnect

SpecServer == InitServer /\ [][NextServer]_vars

-----------------------------------------------------------------------------
\* the line read is a line of a member that is neither the Teammate nor the
\* Spymaster of the active team, in a turn
NonActingLine ==
    /\ LineRead /\ InTurn(CurRoom)
    /\ ~(/\ CurPlayer.team = ActiveTeam(CurRoom)
         /\ CurPlayer.role \in {"Teammate", "Spymaster"})

\* the chat line of the line read: the sender's name, then the trimmed line
IsChatLine(msg) == msg = CurUser.user_name \o <<":", " ">> \o Trim(rd.line)

\* C12: in RedTurn or BlueTurn a line of a session that is neither the
\* active team's Teammate nor its Spymaster changes no room (state, scores,
\* guess_count, clue, board, member set), whatever its text, and is queued
\* as one chat line for every other member of the room.
C12_NonActing ==
    [][NonActingLine =>
          /\ UNCHANGED game_rooms
          /\ Announced(CurRoom.players \ {Cur}, IsChatLine)
          /\ OverlaysKept]_vars

\* the Spectator of the active team typed a guess of the Assassin, and the
\* Teammate of the team has it as chat while the turn goes on
C12_Witness ==
    /\ Live(game_rooms, 1)
    /\ RoomOf(game_rooms, 1).state = "BlueTurn"
    /\ RoomOf(game_rooms, 1).guesses = 0
    /\ \E i \in DOMAIN QueueOf(user_state, 1) :
           QueueOf(user_state, 1)[i] = <<"u3", ":", " ", "!", "w25">>

-----------------------------------------------------------------------------
\* the commands of a room that is WaitingToStart
LobbyCommands ==
    {<<"start">>, <<"teammate">>, <<"spymaster">>, <<"red">>, <<"blue">>,
     <<"show">>}

\* the line read is free chat: a line of a non-acting member in a turn, or a
\* line that is no command in a room that is WaitingToStart
FreeChatLine ==
    \/ NonActingLine
    \/ /\ LineRead /\ CurRoom.state = "WaitingToStart"
       /\ Trim(rd.line) \notin LobbyCommands

\* the line read is answered by a broadcast to all: start, or a clue
BroadcastLine == StartLine \/ (SpymasterLine /\ ClueForm)

IsLine(msg) == Len(msg) > 0

\* C13: a free-chat line appends exactly one line, prefixed with the
\* sender's name, to the queue of every member of the sender's room except
\* the sender, and changes no other queue; a broadcast to all appends
\* exactly one line to the queue of every member of the room, the actor
\* included, and changes no other queue.
C13_Delivery ==
    [][/\ FreeChatLine => Announced(CurRoom.players \ {Cur}, IsChatLine)
       /\ BroadcastLine => Announced(CurRoom.players, IsLine)]_vars

\* session 2 chatted in room 1: the two other members have its line, and
\* neither it nor the session of room 3 has any
C13_Witness ==
    /\ QueueOf(user_state, 1) = <<<<"u2", ":", " ", "0">>>>
    /\ QueueOf(user_state, 3) = <<<<"u2", ":", " ", "0">>>>
    /\ QueueOf(user_state, 2) = <<>>
    /\ QueueOf(user_state, Loner) = <<>>
    /\ Loner \in DOMAIN user_state /\ IsSome(user_state[Loner].player)

-----------------------------------------------------------------------------
\* handle_client is about to prompt a session that is in a room of the
\* registry
RoomPrompt ==
    /\ pc = "prompt"
    /\ Cur \in DOMAIN user_state
    /\ CurUser.state = "InRoom"
    /\ IsSome(CurUser.game_room_key) /\ CurKey \in DOMAIN game_rooms

\* the state last prompted to session a of session map us
MarkerOf(us, a) ==
    IF IsSome(us[a].player) THEN Unwrap(us[a].player).state_prompted ELSE None

\* the view of the room's state is due: no state was prompted yet, or
\* another one than the room's
ViewDue ==
    \/ IsNone(MarkerOf(user_state, Cur))
    \/ Unwrap(MarkerOf(user_state, Cur)) # CurRoomAfter.state

\* C14: a prompt of a session in a room returns the queued lines followed by
\* the view of the room's state if and only if the state last prompted is
\* unset or differs from the room's state; afterwards the state last
\* prompted is the room's state, and a second prompt right after it returns
\* nothing.
C14_PromptDedup ==
    [][RoomPrompt =>
          /\ out' = PromptText(
                        QueueOf(user_state, Cur)
                        \o (IF ViewDue
                            THEN StateView(CurRoomAfter,
                                           Unwrap(user_state'[Cur].player),
                                           user_state', Cur)
                            ELSE <<>>))
          /\ MarkerOf(user_state', Cur) = Some(CurRoomAfter.state)
          /\ \A board \in Boards :
                 IsNone(get_client_prompt(user_state', game_rooms', Cur,
                                          board).text)]_vars

\* session 1, alone in the room it created, was prompted the view of the
\* room and is now prompted nothing
C14_Witness ==
    /\ pc = "logic" /\ Cur = 1 /\ out = None
    /\ CurUser.state = "InRoom" /\ Live(game_rooms, CurKey)
    /\ CurRoom.players = {1}
    /\ MarkerOf(user_state, 1) = Some("WaitingToStart")

-----------------------------------------------------------------------------
\* the overlay of session a of session map us, or the default one
OverlayOf(us, a) ==
    IF IsSome(us[a].player) THEN Unwrap(us[a].player) ELSE DefaultPlayer

\* the step changes no session but the current one
OthersKept ==
    /\ DOMAIN user_state' = DOMAIN user_state
    /\ \A a \in DOMAIN user_state \ {Cur} : user_state'[a] = user_state[a]

\* the step changes no room of the registry but, possibly, the game instance
\* of the current session's room
OtherRoomsKept ==
    /\ DOMAIN game_rooms' = DOMAIN game_rooms
    /\ \A k \in DOMAIN game_rooms :
           \/ game_rooms'[k] = game_rooms[k]
           \/ /\ RoomPrompt /\ k = CurKey
              /\ game_rooms'[k].name = game_rooms[k].name

\* the prompt visits the room of the current session: the game instance is
\* created with the session as its only member, or the session is added to
\* the players and nothing else of the instance changes
RoomVisited ==
    /\ IF Live(game_rooms, CurKey)
       THEN CurRoomAfter =
                [CurRoom EXCEPT !.players = CurRoom.players \cup {Cur}]
       ELSE \E board \in Boards : CurRoomAfter = NewRoom(Cur, board)
    /\ user_state'[Cur] =
           [CurUser EXCEPT
               !.player = Some([OverlayOf(user_state, Cur) EXCEPT
                                   !.chat_queue = <<>>,
                                   !.state_prompted = Some(CurRoomAfter.state)])]

\* the prompt of a session in a room that is not in the registry: the session
\* gets its overlay, its queue is drained and it is in FatalError
RoomMissing ==
    /\ UNCHANGED game_rooms
    /\ user_state'[Cur] =
           [CurUser EXCEPT
               !.state = "FatalError",
               !.player = Some([OverlayOf(user_state, Cur) EXCEPT
                                   !.chat_queue = <<>>])]

\* C15 as stated: a prompt changes nothing of the registry (no member set,
\* no board, no score, no state, no game instance created) and nothing of
\* another session.
C15_PromptPure ==
    [][pc = "prompt" => UNCHANGED game_rooms /\ OthersKept]_vars

\* C15, amended: a prompt changes no other session and no other room; of the
\* session prompted it drains the queue and sets the state last prompted,
\* giving it the default overlay on its first visit; of the session's room it
\* creates the game instance (WaitingToStart, the session its only member)
\* when there is none and otherwise only adds the session to the players;
\* when the room is not in the registry the session is put in FatalError.
\* Board, scores, state, clue and guesses of a game instance never change.
C15_PromptFrame ==
    [][pc = "prompt" =>
          /\ OthersKept
          /\ OtherRoomsKept
          /\ IF RoomPrompt THEN RoomVisited
             ELSE IF CurUser.state = "InRoom" THEN RoomMissing
             ELSE UNCHANGED <<user_state, game_rooms>>]_vars

\* session 2 joined the room session 1 created: its first prompt added it to
\* the players
C15_Witness ==
    /\ pc = "logic" /\ Cur = 2
    /\ CurUser.state = "InRoom" /\ Live(game_rooms, CurKey)
    /\ CurRoom.players = {1, 2}
    /\ MarkerOf(user_state, 2) = Some("WaitingToStart")

\* a session was prompted after its room was removed from the registry
OrphanPrompted ==
    /\ pc = "logic" /\ CurUser.state = "FatalError"
    /\ IsSome(CurUser.game_room_key) /\ CurKey \notin DOMAIN game_rooms

-----------------------------------------------------------------------------
\* the text of the lines q as codenames_prompt returns them
Delivered(q) == Flatten([i \in 1 .. Len(q) |-> q[i] \o <<"\r\n">>])

\* the text handle_client got from the prompt of the step
TextOf(prompt) == IF IsSome(prompt) THEN Unwrap(prompt) ELSE <<>>

-----------------------------------------------------------------------------
\* the line read is a guess that flips a card of the board
FlipLine == GuessLine /\ CurRoomAfter.board # CurRoom.board

\* the members of the current session's room after the step that have the
\* state last prompted set
StillPrompted ==
    {a \in CurRoomAfter.players \cap DOMAIN user_state' :
         IsSome(MarkerOf(user_state', a))}

-----------------------------------------------------------------------------
\* handle_client found that the peer of the current session hung up
Hangup ==
    /\ pc = "logic" /\ rd.type \in {"Disconnected", "Unrecoverable"}
    /\ Cur \in DOMAIN user_state

\* the sessions that are players of a room the current session is a player of
Roommates ==
    {a \in DOMAIN user_state \ {Cur} :
         \E k \in RoomsOf(Cur, game_rooms) : a \in RoomOf(game_rooms, k).players}

LeaveLine == CurUser.user_name \o <<" ", "has left the game!">>

\* C18: when session S hangs up, S is removed from the session map and from
\* the players of every room, nothing else of a room changes and no room is
\* removed; every other player of a room S was in gets exactly one line
\* "S has left the game!" at the end of its queue, and no other session
\* changes.
C18_Disconnect ==
    [][Hangup =>
          /\ DOMAIN user_state' = DOMAIN user_state \ {Cur}
          /\ DOMAIN game_rooms' = DOMAIN game_rooms
          /\ \A k \in DOMAIN game_rooms :
                 IF Live(game_rooms, k)
                 THEN /\ Live(game_rooms', k)
                      /\ game_rooms'[k].name = game_rooms[k].name
                      /\ RoomOf(game_rooms', k) =
                             [RoomOf(game_rooms, k) EXCEPT
                                 !.players = @ \ {Cur}]
                 ELSE game_rooms'[k] = game_rooms[k]
          /\ \A a \in DOMAIN user_state' :
                 IF a \in Roommates
                 THEN /\ QueueOf(user_state', a) =
                             Append(QueueOf(user_state, a), LeaveLine)
                      /\ user_state'[a] =
                             [user_state[a] EXCEPT
                                 !.player[1].chat_queue =
                                     QueueOf(user_state', a)]
                 ELSE user_state'[a] = user_state[a]]_vars

\* session 3 hung up: room 1 is left with its two other players, both have
\* the line, and the session of room 3 has none
C18_Witness ==
    /\ 3 \notin DOMAIN user_state
    /\ {1, 2, Loner} \subseteq DOMAIN user_state
    /\ Live(game_rooms, 1) /\ RoomOf(game_rooms, 1).players = {1, 2}
    /\ QueueOf(user_state, 1) = <<<<"u3", " ", "has left the game!">>>>
    /\ QueueOf(user_state, 2) = <<<<"u3", " ", "has left the game!">>>>
    /\ QueueOf(user_state, Loner) = <<>>

-----------------------------------------------------------------------------
\* handle_client runs client_logic, with the line read or with none, for a
\* session in a room whose game has ended
EndedRoomVisit ==
    /\ pc = "logic" /\ rd.type \in {"Ok", "WouldBlock"}
    /\ Cur \in DOMAIN user_state
    /\ CurUser.state = "InRoom"
    /\ IsSome(CurUser.game_room_key) /\ Live(game_rooms, CurKey)
    /\ CurRoom.state = "GameEnd"

\* the rooms the step removes from the registry
RoomsRemoved == DOMAIN game_rooms \ DOMAIN game_rooms'

\* C19: when a room is in GameEnd, client_logic of a session whose room key
\* names it removes the room from the registry, whether a line was read or
\* not; and a step removes a room only if the room was in GameEnd, never a
\* room that is WaitingToStart, RedTurn or BlueTurn or has no game instance.
C19_Teardown ==
    [][/\ EndedRoomVisit => CurKey \in RoomsRemoved
       /\ \A k \in RoomsRemoved :
              Live(game_rooms, k) /\ RoomOf(game_rooms, k).state = "GameEnd"]_vars

\* room 1 was removed after its game ended: a session is still keyed to it,
\* and room 3 is in the registry
C19_Witness ==
    /\ 1 \notin DOMAIN game_rooms
    /\ OtherRoom \in DOMAIN game_rooms
    /\ \E a \in DOMAIN user_state :
           user_state[a].game_room_key = Some(1) /\ user_state[a].state = "InRoom"

-----------------------------------------------------------------------------
\* the line read is 0, of a session that is selecting a lobby: a new lobby
\* is created
CreateLine ==
    /\ pc = "logic" /\ rd.type = "Ok"
    /\ Cur \in DOMAIN user_state
    /\ CurUser.state = "LobbySelection"
    /\ ParseI32(Trim(rd.line)) = Some(0)

\* the rooms the step adds to the registry
RoomsAdded == DOMAIN game_rooms' \ DOMAIN game_rooms

\* the largest id of the registry, 0 when it is empty
LargestId ==
    IF DOMAIN game_rooms = {} THEN 0
    ELSE CHOOSE k \in DOMAIN game_rooms : \A j \in DOMAIN game_rooms : j <= k

\* C20 as stated: a new lobby gets the smallest positive integer that is not
\* the id of a room of the registry.
C20_SmallestId ==
    [][CreateLine =>
          \E k \in RoomsAdded :
              /\ RoomsAdded = {k}
              /\ k > 0
              /\ \A j \in 1 .. (k - 1) : j \in DOMAIN game_rooms]_vars

\* C20, amended: a new lobby gets one more than the largest id of the
\* registry (1 when the registry is empty), which is positive and is not the
\* id of a room of the registry; the rooms of the registry are kept as they
\* are, the session that created the lobby is keyed to it, and no other step
\* adds a room.
C20_NextId ==
    [][/\ CreateLine =>
              /\ RoomsAdded = {LargestId + 1}
              /\ LargestId + 1 > 0
              /\ \A k \in DOMAIN game_rooms :
                     k \in DOMAIN game_rooms' /\ game_rooms'[k] = game_rooms[k]
              /\ user_state'[Cur].game_room_key = Some(LargestId + 1)
              /\ user_state'[Cur].state = "InRoom"
       /\ RoomsAdded # {} => CreateLine]_vars

\* the registry held rooms 1 and 3 and the lobby the visitor created is
\* room 4, while id 2 is unused
C20_Witness ==
    /\ DOMAIN game_rooms = {1, OtherRoom, OtherRoom + 1}
    /\ user_state[Visitor].game_room_key = Some(OtherRoom + 1)
    /\ user_state[Visitor].state = "InRoom"

\* a lobby was created after room 1 was torn down: it is room 4, not room 1
IdNotReused ==
    /\ DOMAIN game_rooms = {OtherRoom, OtherRoom + 1}
    /\ user_state[Visitor].game_room_key = Some(OtherRoom + 1)

-----------------------------------------------------------------------------
(* Rooms with generated boards: room 1 is created by the first prompt of   *)
(* session 1, or is in Red's first turn, on a board gen_board returned.    *)

GenBoards == {gen_board(draw) : draw \in Draws}

\* the lines the clients send: the id of room 1, start, guesses of words of
\* the word list, and the end of the turn
BoardLines ==
    {<<"1", "\r\n">>, <<"start", "\r\n">>, <<"!", "w1", "\r\n">>,
     <<"!", "w2", "\r\n">>, <<"!", "w27", "\r\n">>, <<"!", "!", "\r\n">>}

InitBoard ==
    /\ \/ InitCreated
       \/ /\ \E b \in GenBoards :
                 \E room \in {TurnRoom(b, "RedTurn", 0, 0, None, 0)} :
                     /\ game_rooms =
                            (1 :> [name |-> RoomName, impl_room |-> Some(room)])
                     /\ user_state = [a \in DOMAIN Lineup |-> Member(a, room)]
          /\ pc = "accept"
    /\ open_streams = SetToSeq(DOMAIN Lineup)
    /\ idx = 1
    /\ rd = NoRead
    /\ out = None
    /\ panicked = FALSE
    /\ lines_left = MaxLines

NextBoard ==
    \/ Accept({})
    \/ HandlePrompt(BoardLines, {WouldBlock}, GenBoards)
    \/ HandleLine(GenBoards)
    \/ HandleIdle(GenBoards)

SpecBoard == InitBoard /\ [][NextBoard]_vars

\* the cards of card type t of a board
CardsOf(board, t) ==
    {k \in 1 .. Len(Cells(board)) : Cells(board)[k].card_type = t}

\* the words of a board
WordsOf(board) == {Cells(board)[k].word : k \in 1 .. Len(Cells(board))}

\* a board of 25 cards: 9 RedAgents, 8 BlueAgents, 7 Bystanders, 1 Assassin
\* and 25 words
WellFormed(board) ==
    /\ Len(Cells(board)) = BoardSide * BoardSide
    /\ Cardinality(CardsOf(board, "RedAgent")) = NumRedAgents
    /\ Cardinality(CardsOf(board, "BlueAgent")) = NumBlueAgents
    /\ Cardinality(CardsOf(board, "Bystander")) = NumBystanders
    /\ Cardinality(CardsOf(board, "Assassin")) = 1
    /\ Cardinality(WordsOf(board)) = BoardSide * BoardSide

\* the step gives room k its game instance
Created(k) ==
    /\ k \in DOMAIN game_rooms /\ ~Live(game_rooms, k)
    /\ Live(game_rooms', k)

\* C21: the board of every room with a game instance has 25 cards, 9
\* RedAgents, 8 BlueAgents, 7 Bystanders and 1 Assassin, and 25 pairwise
\* distinct words, whatever gen_board drew; and when a game instance is
\* created no card of its board is flipped.
C21_Board ==
    /\ [](\A k \in DOMAIN game_rooms :
              Live(game_rooms, k) => WellFormed(RoomOf(game_rooms, k).board))
    /\ [][\A k \in DOMAIN game_rooms :
              Created(k) =>
                  \A j \in CellIds : ~CellOf(RoomOf(game_rooms', k), j).flipped]_vars

\* room 1 was created on the board of the draw with strides 1 and 2, which
\* is not the board of the draw with strides 0 and 0
C21_Witness ==
    /\ Live(game_rooms, 1)
    /\ RoomOf(game_rooms, 1).players = {1}
    /\ RoomOf(game_rooms, 1).board = gen_board([w |-> 1, t |-> 2])
    /\ gen_board([w |-> 1, t |-> 2]) # gen_board([w |-> 0, t |-> 0])

-----------------------------------------------------------------------------
\* the card with another card type, and the card flipped over
Retyped(card, t) == [card EXCEPT !.card_type = t]

Turned(card) == [card EXCEPT !.flipped = TRUE]

\* the rendering of the card shows its card type: it is another rendering
\* for every other card type
ShowsType(card, role) ==
    \A t \in CodenamesCardType \ {card.card_type} :
        RenderCard(Retyped(card, t), role) # RenderCard(card, role)

\* the rendering of the card does not depend on its card type
HidesType(card, role) ==
    \A t \in CodenamesCardType :
        RenderCard(Retyped(card, t), role) = RenderCard(card, role)

\* the rendering of the card holds its word and its flipped marker
ShowsWord(card, role) ==
    /\ \E i \in DOMAIN RenderCard(card, role) :
           RenderCard(card, role)[i] = card.word
    /\ RenderCard(card, role)[2] = (IF card.flipped THEN "X" ELSE " ")

\* the renderings of a card of the board, before and after it is flipped
CardRendering(card) ==
    /\ \A role \in CodenamesRole :
           /\ ShowsWord(card, role) /\ ShowsWord(Turned(card), role)
           /\ ShowsType(Turned(card), role)
           /\ RenderCard(Turned(card), role) = RenderCard(Turned(card), "Spymaster")
    /\ card.flipped =>
           \A role \in CodenamesRole : ShowsType(card, role)
    /\ ~card.flipped =>
           /\ HidesType(card, "Teammate")
           /\ ShowsType(card, "Spymaster") /\ ShowsType(card, "Spectator")
           /\ RenderCard(card, "Teammate") # RenderCard(card, "Spymaster")
           /\ RenderCard(card, "Spectator") = RenderCard(card, "Spymaster")

\* the board as get_board puts the renderings of its cards together
BoardRendering(room, role) ==
    <<RuleLine>>
    \o Flatten([r \in 1 .. BoardSide |->
          Flatten([c \in 1 .. BoardSide |-> RenderCard(room.board[r][c], role)])
          \o <<"|\r\n", RuleLine>>])

\* text ends with tail
EndsWith(text, tail) ==
    /\ Len(tail) <= Len(text)
    /\ SubSeq(text, Len(text) - Len(tail) + 1, Len(text)) = tail

\* handle_client is about to prompt a session the view of a turn
TurnPrompt == RoomPrompt /\ ViewDue /\ InTurn(CurRoomAfter)

\* C22: the rendering of a card is a function of the viewer's role and the
\* card.  A Teammate's rendering of an unflipped card holds the word and
\* is the same for every card type; the rendering for a Spymaster or a
\* Spectator, and of a flipped card for every role, holds the word and the
\* flipped marker and differs for every two card types; so Teammate and
\* Spymaster see an unflipped card differently and a flipped card alike.
\* The board sent with the view of a turn is made of these renderings, for
\* the role of the session and whatever its team, and no prompt changes a
\* board.  The cards are those of the boards the rooms start with and every
\* card a step creates or flips.
C22_Rendering ==
    /\ \A k \in DOMAIN game_rooms :
           Live(game_rooms, k) =>
               \A j \in CellIds : CardRendering(CellOf(RoomOf(game_rooms, k), j))
    /\ [][/\ \A k \in DOMAIN game_rooms' :
                 Live(game_rooms', k) =>
                     \A j \in CellIds :
                         (\/ ~Live(game_rooms, k)
                          \/ CellOf(RoomOf(game_rooms', k), j)
                                 # CellOf(RoomOf(game_rooms, k), j))
                         => CardRendering(CellOf(RoomOf(game_rooms', k), j))
          /\ TurnPrompt =>
                 /\ EndsWith(TextOf(out'),
                             BoardRendering(CurRoomAfter,
                                            OverlayOf(user_state', Cur).role)
                             \o <<"\r\n">>)
                 /\ \A team \in CodenamesTeam :
                        get_board(CurRoomAfter, team,
                                  OverlayOf(user_state', Cur).role) =
                            BoardRendering(CurRoomAfter,
                                           OverlayOf(user_state', Cur).role)
          /\ pc = "prompt" =>
                 \A k \in DOMAIN game_rooms :
                     Live(game_rooms, k) =>
                         RoomOf(game_rooms', k).board = RoomOf(game_rooms, k).board]_vars

\* the Red Spymaster was sent the board after the Red Teammate guessed the
\* Bystander w18: the card is flipped and its rendering is the one the
\* Teammate gets
C22_Witness ==
    /\ pc = "logic" /\ Cur = 1
    /\ Live(game_rooms, 1) /\ InTurn(RoomOf(game_rooms, 1))
    /\ CellOf(RoomOf(game_rooms, 1), 18).flipped
    /\ EndsWith(TextOf(out),
                BoardRendering(RoomOf(game_rooms, 1), "Spymaster") \o <<"\r\n">>)
    /\ RenderCard(CellOf(RoomOf(game_rooms, 1), 18), "Teammate")
           = RenderCard(CellOf(RoomOf(game_rooms, 1), 18), "Spymaster")
    /\ RenderCard(CellOf(RoomOf(game_rooms, 1), 1), "Teammate")
           # RenderCard(CellOf(RoomOf(game_rooms, 1), 1), "Spymaster")

-----------------------------------------------------------------------------
\* session a of session map us is InRoom and its room key is unset or names
\* no room of registry gr
Orphan(us, gr, a) ==
    /\ a \in DOMAIN us /\ us[a].state = "InRoom"
    /\ \/ IsNone(us[a].game_room_key)
       \/ Unwrap(us[a].game_room_key) \notin DOMAIN gr

\* the session map with the room key of session a unset
Unkeyed(us, a) == [us EXCEPT ![a].game_room_key = None]

\* the result r of a call on session map us leaves the current session in
\* FatalError, the registry as it is and every other session in its state
FatalAfter(r, us) ==
    /\ r.us[Cur].state = "FatalError"
    /\ r.gr = game_rooms
    /\ DOMAIN r.us = DOMAIN us
    /\ \A a \in DOMAIN us \ {Cur} : r.us[a].state = us[a].state

\* what client_logic may be called with
InputsOf(lines) == {None} \cup {Some(l) : l \in lines}

\* C23: when the room key of an InRoom session names no room of the
\* registry, the prompt of the session puts it in FatalError, changes and
\* creates no room and changes the state of no other session, and so would
\* client_logic with any line or none; the same holds for every InRoom
\* session once its room key is unset.
C23_Fatal ==
    [][/\ (pc = "prompt" /\ Orphan(user_state, game_rooms, Cur)) =>
              /\ user_state'[Cur].state = "FatalError"
              /\ UNCHANGED game_rooms
              /\ DOMAIN user_state' = DOMAIN user_state
              /\ \A a \in DOMAIN user_state \ {Cur} :
                     user_state'[a].state = user_state[a].state
              /\ \A board \in Boards : \A line \in InputsOf(ServerLines) :
                     FatalAfter(client_logic(user_state, game_rooms, Cur,
                                             line, board), user_state)
       /\ (pc = "prompt" /\ Cur \in DOMAIN user_state
           /\ CurUser.state = "InRoom") =>
              \A board \in Boards :
                  /\ FatalAfter(get_client_prompt(Unkeyed(user_state, Cur),
                                                  game_rooms, Cur, board),
                                user_state)
                  /\ \A line \in InputsOf(ServerLines) :
                         FatalAfter(client_logic(Unkeyed(user_state, Cur),
                                                 game_rooms, Cur, line, board),
                                    user_state)]_vars

\* a session was prompted after its room was removed and is in FatalError,
\* while another session keyed to the same room is still InRoom
C23_Witness ==
    /\ OrphanPrompted
    /\ \E a \in DOMAIN user_state \ {Cur} :
           /\ user_state[a].state = "InRoom"
           /\ user_state[a].game_room_key = CurUser.game_room_key

-----------------------------------------------------------------------------
\* session a is in FatalError
Fatal(a) == a \in DOMAIN user_state /\ user_state[a].state = "FatalError"

\* session a is gone: it is not in the session map and a player of no room
Gone(a) == a \notin DOMAIN user_state /\ RoomsOf(a, game_rooms) = {}

\* handle_client has read a line or nothing for a session in FatalError:
\* client_logic will return Err
FatalPolled ==
    /\ pc = "logic" /\ rd.type \in {"Ok", "WouldBlock"}
    /\ Fatal(Cur)

\* C24: a session in FatalError is disconnected by the loop: when
\* client_logic returns Err for it, handle_client drops it, so that it is
\* not in the session map, a player of no room, and not polled again.
C24_FatalDisconnected ==
    [][FatalPolled =>
          /\ Cur \notin DOMAIN user_state'
          /\ RoomsOf(Cur, game_rooms') = {}
          /\ \A i \in DOMAIN open_streams' : open_streams'[i] # Cur]_vars

\* what the loop does instead: polling a session in FatalError changes
\* neither the sessions nor the registry nor the open streams, so that the
\* session is in FatalError at every later pass until its peer hangs up
FatalStays ==
    [][((pc = "prompt" /\ Fatal(Cur)) \/ FatalPolled) =>
           UNCHANGED <<user_state, game_rooms, open_streams>>]_vars

-----------------------------------------------------------------------------
\* the board with every card unflipped
Unturned(board) ==
    [r \in DOMAIN board |->
        [c \in DOMAIN board[r] |-> [board[r][c] EXCEPT !.flipped = FALSE]]]

\* the sessions whose room key names room k
KeyedTo(k) ==
    {a \in DOMAIN user_state : user_state[a].game_room_key = Some(k)}

\* what initialize_user_board makes of room k when session a accesses it
Accessed(a, k, board) ==
    RoomOf(initialize_user_board(user_state, game_rooms, a, board).gr, k)

\* C25: a game instance is created by the first access to a room that has
\* none, as WaitingToStart with both scores 0, guesses 0, no clue, no
\* assassin_found_by, the accessing session its only player and no card
\* flipped; an access to a room that has an instance only adds the accessing
\* session to the players; and while the room is in the registry its
\* instance stays, the words and card types of its cards never change and a
\* flipped card stays flipped.
C25_CreatedOnce ==
    [][\A k \in DOMAIN game_rooms :
          /\ Created(k) =>
                 /\ pc = "prompt" /\ k = CurKey
                 /\ \E board \in GenBoards :
                        RoomOf(game_rooms', k) = NewRoom(Cur, board)
          /\ (pc = "prompt" /\ Live(game_rooms, k)) =>
                 \A a \in KeyedTo(k) : \A board \in Boards :
                     Accessed(a, k, board) =
                         [RoomOf(game_rooms, k) EXCEPT !.players = @ \cup {a}]
          /\ (Live(game_rooms, k) /\ k \in DOMAIN game_rooms') =>
                 /\ Live(game_rooms', k)
                 /\ Unturned(RoomOf(game_rooms', k).board)
                        = Unturned(RoomOf(game_rooms, k).board)
                 /\ \A j \in CellIds :
                        CellOf(RoomOf(game_rooms, k), j).flipped
                            => CellOf(RoomOf(game_rooms', k), j).flipped]_vars

\* room 1 was created by session 1 on a board gen_board returned and then
\* accessed by session 2
C25_Witness ==
    /\ Live(game_rooms, 1)
    /\ RoomOf(game_rooms, 1).players = {1, 2}
    /\ RoomOf(game_rooms, 1).state = "WaitingToStart"
    /\ RoomOf(game_rooms, 1).board \in GenBoards
    /\ pc = "logic" /\ rd.type = "Ok"

-----------------------------------------------------------------------------
\* the lines the clients send: the commands of the lobby, the id of room 1,
\* a guess and a line that is no command
RoleLines ==
    {<<"red", "\r\n">>, <<"blue", "\r\n">>, <<"teammate", "\r\n">>,
     <<"spymaster", "\r\n">>, <<"show", "\r\n">>, <<"start", "\r\n">>,
     <<"1", "\r\n">>, <<"!", "w17", "\r\n">>, <<"hi", "\r\n">>}

NextRoles ==
    \/ Accept({})
    \/ HandlePrompt(RoleLines, {WouldBlock}, Boards)
    \/ HandleLine(Boards)
    \/ HandleIdle(Boards)

SpecRoles == InitGame /\ [][NextRoles]_vars

\* the commands of the lobby that name a team or a role
RoleCommands == {<<"red">>, <<"blue">>, <<"teammate">>, <<"spymaster">>}

\* the line read is a team or role command of a member of a room in
\* WaitingToStart
RoleLine ==
    /\ LineRead /\ CurRoom.state = "WaitingToStart"
    /\ Trim(rd.line) \in RoleCommands

\* the overlay after the command: the field it names set, and state_prompted
\* cleared
Assigned(player, cmd) ==
    CASE cmd = <<"red">> ->
            [player EXCEPT !.team = "Red", !.state_prompted = None]
      [] cmd = <<"blue">> ->
            [player EXCEPT !.team = "Blue", !.state_prompted = None]
      [] cmd = <<"teammate">> ->
            [player EXCEPT !.role = "Teammate", !.state_prompted = None]
      [] cmd = <<"spymaster">> ->
            [player EXCEPT !.role = "Spymaster", !.state_prompted = None]

\* the sessions whose team or role the step changes
Reassigned ==
    {a \in DOMAIN user_state \cap DOMAIN user_state' :
         \/ OverlayOf(user_state', a).team # OverlayOf(user_state, a).team
         \/ OverlayOf(user_state', a).role # OverlayOf(user_state, a).role}

\* C26: the team or the role of a session changes only in the step that
\* handles a line red, blue, teammate or spymaster of that session while its
\* room is in WaitingToStart; that step sets the field the command names,
\* clears state_prompted of the sender and changes nothing else of the
\* session map or of the registry; so in RedTurn, BlueTurn and GameEnd no
\* team and no role changes.
C26_SelfAssign ==
    [][/\ Reassigned # {} => RoleLine /\ Reassigned = {Cur}
       /\ RoleLine =>
              /\ user_state' =
                     [user_state EXCEPT
                         ![Cur].player =
                             Some(Assigned(CurPlayer, Trim(rd.line)))]
              /\ UNCHANGED game_rooms]_vars

\* session 1, the Red Spymaster of the lobby, sent blue: it is the Blue
\* Spymaster, its state_prompted is cleared, and the others are as they were
C26_Witness ==
    /\ Live(game_rooms, 1)
    /\ RoomOf(game_rooms, 1).state = "WaitingToStart"
    /\ OverlayOf(user_state, 1).team = "Blue"
    /\ OverlayOf(user_state, 1).role = "Spymaster"
    /\ IsNone(MarkerOf(user_state, 1))
    /\ \A a \in DOMAIN Lineup \ {1} :
           /\ OverlayOf(user_state, a).team = Lineup[a].team
           /\ OverlayOf(user_state, a).role = Lineup[a].role

-----------------------------------------------------------------------------
\* the line read is a line of the Teammate of the active team that is no
\* guess and no end of the turn
TeammateChat == TeammateLine /\ ~StartsWith(rd.line, <<"!">>)

\* C27: a line of the Teammate of the active team that does not start with
\* `!` appends one chat line, prefixed with the sender's name, to the queue
\* of every other member of the room.
C27_TeammateChat ==
    [][TeammateChat => Announced(CurRoom.players \ {Cur}, IsChatLine)]_vars

\* what turn_logic does with such a line: the Teammate arm has no branch for
\* it, and the step changes no queue, no session and no room
TeammateChatDropped ==
    [][TeammateChat => UNCHANGED <<user_state, game_rooms>>]_vars

-----------------------------------------------------------------------------
\* the number of flipped cards of card type t on the board
FlippedCount(board, t) ==
    Cardinality({j \in CellIds :
                     /\ Cells(board)[j].card_type = t
                     /\ Cells(board)[j].flipped})

\* C28: in every reachable state red_score is the number of flipped RedAgent
\* cards and blue_score the number of flipped BlueAgent cards of the room's
\* board, so red_score is at most 9 and blue_score at most 8.
C28_ScoreCount ==
    \A k \in DOMAIN game_rooms :
        Live(game_rooms, k) =>
            /\ RoomOf(game_rooms, k).red_score
                   = FlippedCount(RoomOf(game_rooms, k).board, "RedAgent")
            /\ RoomOf(game_rooms, k).blue_score
                   = FlippedCount(RoomOf(game_rooms, k).board, "BlueAgent")
            /\ RoomOf(game_rooms, k).red_score <= NumRedAgents
            /\ RoomOf(game_rooms, k).blue_score <= NumBlueAgents

\* the part of C28 that holds: a guess scores only for a card of that team's
\* agents, so each score is at least the number of that team's flipped cards
ScoreAtLeastFlipped ==
    \A k \in DOMAIN game_rooms :
        Live(game_rooms, k) =>
            /\ RoomOf(game_rooms, k).red_score
                   >= FlippedCount(RoomOf(game_rooms, k).board, "RedAgent")
            /\ RoomOf(game_rooms, k).blue_score
                   >= FlippedCount(RoomOf(game_rooms, k).board, "BlueAgent")

-----------------------------------------------------------------------------
\* handle_client: get_client_prompt for the stream, then the write of the
\* prompt fails (the peer is gone, one of the inputs the clients still
\* produce): handle_client returns false without client_disconnect, and the
\* stream is dropped
HandleWriteError(boards) ==
    /\ pc = "prompt" /\ ~panicked
    /\ lines_left > 0
    /\ lines_left' = lines_left - 1
    /\ \E board \in boards :
           \E r \in {get_client_prompt(user_state, game_rooms, Cur, board)} :
               /\ IsSome(r.text)
               /\ user_state' = r.us
               /\ game_rooms' = r.gr
    /\ open_streams' = SubSeq(open_streams, 1, idx - 1)
                       \o SubSeq(open_streams, idx + 1, Len(open_streams))
    /\ MoveTo(idx, open_streams')
    /\ EndOfBody
    /\ UNCHANGED panicked

NextMembers ==
    \/ Accept({})
    \/ HandlePrompt(ServerLines, {WouldBlock}, Boards)
    \/ HandleHangup(Boards)
    \/ HandleWriteError(Boards)
    \/ HandleLine(Boards)
    \/ HandleIdle(Boards)
    \/ HandleDisconnect

SpecMembers == InitServer /\ [][NextMembers]_vars

\* C29: every session is a player of at most one room; every player of a
\* room is a key of the session map, its session has an overlay and its room
\* key names that room; and no unwrap of verify_room, refresh_prompt or
\* codenames_disconnect has failed.
C29_Membership ==
    /\ ~panicked
    /\ \A a \in DOMAIN user_state :
           Cardinality(RoomsOf(a, game_rooms)) <= 1
    /\ \A k \in DOMAIN game_rooms :
           Live(game_rooms, k) =>
               \A a \in RoomOf(game_rooms, k).players :
                   /\ a \in DOMAIN user_state
                   /\ IsSome(user_state[a].player)
                   /\ user_state[a].game_room_key = Some(k)

\* a session of room 1 hung up and is gone from the session map and from the
\* room, and the visitor has become a player of a room since
C29_Witness ==
    /\ \E a \in DOMAIN ServerCast : a \notin DOMAIN user_state
    /\ RoomsOf(Visitor, game_rooms) # {}
    /\ \A k \in RoomsOf(Visitor, game_rooms) :
           RoomOf(game_rooms, k).players \subseteq DOMAIN user_state

-----------------------------------------------------------------------------
(* The reuse of a room id: the game of ServerCast is in the room with the  *)
(* largest id, and the visitor, who connected second and has not chosen a  *)
(* lobby yet, is polled between the first and the second session of the    *)
(* game.                                                                   *)

LastRoom == OtherRoom + 1

ReuseStreams == <<1, Visitor, 2, 3, Loner>>

\* the lines the clients send: a new lobby, a guess of the Assassin and the
\* end of a turn
ReuseLines ==
    {<<"0", "\r\n">>, <<"!", "w25", "\r\n">>, <<"!", "!", "\r\n">>}

\* the game in Blue's turn after Red guessed a BlueAgent
InitReuse ==
    /\ \E b \in Boards :
           /\ game_rooms =
                  (OtherRoom :>
                       [name |-> UserName(Loner) \o <<"'s Room">>,
                        impl_room |-> Some(NewRoom(Loner, b))])
                  @@ (LastRoom :>
                       [name |-> RoomName,
                        impl_room |->
                            Some([NewRoom(1, b) EXCEPT
                                     !.players = DOMAIN ServerCast,
                                     !.state = "BlueTurn",
                                     !.blue_score = 1,
                                     !.board = FlippedBoard(b, 0, 1)])])
           /\ user_state =
                  [a \in DOMAIN ServerCast \cup {Loner, Visitor} |->
                      IF a \in DOMAIN ServerCast
                      THEN InRoomUser(a, LastRoom, ServerCast[a].team,
                                      ServerCast[a].role, "BlueTurn")
                      ELSE IF a = Loner
                      THEN InRoomUser(a, OtherRoom, "Floating", "Spectator",
                                      "WaitingToStart")
                      ELSE Newcomer(a)]
    /\ open_streams = ReuseStreams
    /\ idx = 1
    /\ pc = "accept"
    /\ rd = NoRead
    /\ out = None
    /\ panicked = FALSE
    /\ lines_left = MaxLines

NextReuse ==
    \/ Accept({})
    \/ HandlePrompt(ReuseLines, {WouldBlock}, Boards)
    \/ HandleLine(Boards)
    \/ HandleIdle(Boards)

SpecReuse == InitReuse /\ [][NextReuse]_vars

\* the game instance is the one the sessions of ServerCast entered: it has
\* the BlueAgent found that a new instance has not
Entered(room) == room.blue_score >= 1

\* C30: a session that entered room id k never becomes a player of a game
\* instance created later under the same id: the sessions of ServerCast are
\* players of no instance but the one they entered, also after their room
\* was removed and the visitor created a lobby that got the same id.
C30_NoRejoin ==
    \A a \in DOMAIN ServerCast :
        \A k \in RoomsOf(a, game_rooms) : Entered(RoomOf(game_rooms, k))

\* an instance that was entered stays so while its room is in the registry,
\* and a step removes a room only after the end of its game
EnteredStays ==
    [][\A k \in DOMAIN game_rooms :
          Live(game_rooms, k) /\ Entered(RoomOf(game_rooms, k)) =>
              IF k \in DOMAIN game_rooms'
              THEN Live(game_rooms', k) /\ Entered(RoomOf(game_rooms', k))
              ELSE RoomOf(game_rooms, k).state = "GameEnd"]_vars

-----------------------------------------------------------------------------
\* the players of room k that are sessions and were not prompted the end of
\* the game
NotShownEnd(k) ==
    {a \in RoomOf(game_rooms, k).players \cap DOMAIN user_state :
         MarkerOf(user_state, a) # Some("GameEnd")}

\* C31: a room whose game has ended is not removed from the registry before
\* every session that is a player of it was shown the end of the game by
\* codenames_prompt: a step removes a room only when state_prompted of each
\* of its players is GameEnd.
C31_EndShown ==
    [][\A k \in RoomsRemoved :
          Live(game_rooms, k) => NotShownEnd(k) = {}]_vars

\* what the code does: the session whose client_logic removes the room was
\* prompted the end of the game itself, and a session that was not is never
\* prompted it once the room is gone
RemoverShown ==
    [][/\ RoomsRemoved # {} =>
              /\ RoomsRemoved = {CurKey}
              /\ MarkerOf(user_state, Cur) = Some("GameEnd")
       /\ \A a \in DOMAIN user_state \cap DOMAIN user_state' :
              (/\ IsSome(user_state[a].game_room_key)
               /\ Unwrap(user_state[a].game_room_key) \notin DOMAIN game_rooms
               /\ MarkerOf(user_state, a) # Some("GameEnd"))
                  => MarkerOf(user_state', a) # Some("GameEnd")]_vars

====
